---- MODULE Spec2Model ----
(***************************************************************************)
(* Model of the PKU lecture-video CLI: the credential store               *)
(* (src/unnamed/part_000), the three API calls (src/src/api, utils/http),  *)
(* extractVideoUrl (src/src/api/video.ts) and the orchestrator main()      *)
(* (src/src/index.ts).                                                     *)
(*                                                                         *)
(* Strings are sequences of one-character strings, so that prefix tests,   *)
(* substring tests, JSON encoding and JSON decoding are computed the way   *)
(* the code computes them.                                                 *)
(***************************************************************************)
EXTENDS Integers, Sequences, FiniteSets, TLC

\* ------------------------------------------------------------------------
\* Bounds of the model (not program constants)
\* ------------------------------------------------------------------------

\* Number of program runs (process starts) explored; the credential file
\* persists from one run to the next.
MaxRuns == 3

\* Number of chunks the body of a download can deliver before it is done.
MaxChunks == 2

\* ------------------------------------------------------------------------
\* String primitives (JavaScript String methods used by the code)
\* ------------------------------------------------------------------------

\* String.prototype.startsWith
StartsWith(s, p) ==
    /\ Len(s) >= Len(p)
    /\ SubSeq(s, 1, Len(p)) = p

\* String.prototype.includes
Includes(s, p) ==
    \E i \in 1..(Len(s) - Len(p) + 1) : SubSeq(s, i, i + Len(p) - 1) = p

\* s matches lit at position i
MatchAt(s, i, lit) ==
    /\ i >= 1
    /\ i + Len(lit) - 1 <= Len(s)
    /\ SubSeq(s, i, i + Len(lit) - 1) = lit

\* Number.prototype.toString for a non-negative integer
RECURSIVE Digits(_)
Digits(n) ==
    LET d == <<"0","1","2","3","4","5","6","7","8","9">>[(n % 10) + 1]
    IN  IF n < 10 THEN <<d>> ELSE Digits(n \div 10) \o <<d>>

\* ------------------------------------------------------------------------
\* JavaScript values: a tagged record for each type the code can meet
\* ------------------------------------------------------------------------

Undefined == [type |-> "undefined"]
JSNull == [type |-> "null"]
JSStr(s) == [type |-> "string", str |-> s]
JSNum(n) == [type |-> "number", num |-> n]
JSBool(b) == [type |-> "boolean", bool |-> b]
\* an object keeps its properties in insertion order
JSObj(ks, vs) == [type |-> "object", keys |-> ks, vals |-> vs]

\* property read obj[key], undefined when the object has no such key
GetProp(o, key) ==
    LET hits == {i \in 1..Len(o.keys) : o.keys[i] = key}
    IN  IF hits = {} THEN Undefined
        ELSE o.vals[CHOOSE i \in hits : \A j \in hits : j <= i]

\* ------------------------------------------------------------------------
\* JSON.stringify / JSON.parse
\* ------------------------------------------------------------------------

DQ == "\""
BS == "\\"
NL == "\n"

\* JSON.stringify that escapes nothing
EscapeChar_None(c) == <<c>>

\* JSON.stringify's escaping of one character of a string
EscapeChar(c) ==
    IF c = DQ THEN <<BS, DQ>>
    ELSE IF c = BS THEN <<BS, BS>>
    ELSE IF c = NL THEN <<BS, "n">>
    ELSE <<c>>

RECURSIVE EscapeString(_)
EscapeString(s) ==
    IF s = <<>> THEN <<>>
    ELSE EscapeChar(Head(s)) \o EscapeString(Tail(s))

\* a JSON string literal
QuoteJSON(s) == <<DQ>> \o EscapeString(s) \o <<DQ>>

IsWs(c) == c \in {" ", NL, "\t", "\r"}

IsDigit(c) == c \in {"0","1","2","3","4","5","6","7","8","9"}

DigitVal(c) == CHOOSE n \in 0..9 : Digits(n) = <<c>>

RECURSIVE SkipWs(_, _)
SkipWs(s, i) ==
    IF i <= Len(s) /\ IsWs(s[i]) THEN SkipWs(s, i + 1) ELSE i

ParseFail == [ok |-> FALSE]
ParseOk(v, n) == [ok |-> TRUE, val |-> v, next |-> n]

\* the body of a string literal, from the character after the opening quote
RECURSIVE ParseStringBody(_, _, _)
ParseStringBody(s, i, acc) ==
    IF i > Len(s) THEN ParseFail
    ELSE IF s[i] = DQ THEN ParseOk(JSStr(acc), i + 1)
    ELSE IF s[i] = BS THEN
        IF i + 1 > Len(s) THEN ParseFail
        ELSE IF s[i + 1] = DQ THEN ParseStringBody(s, i + 2, Append(acc, DQ))
        ELSE IF s[i + 1] = BS THEN ParseStringBody(s, i + 2, Append(acc, BS))
        ELSE IF s[i + 1] = "/" THEN ParseStringBody(s, i + 2, Append(acc, "/"))
        ELSE IF s[i + 1] = "n" THEN ParseStringBody(s, i + 2, Append(acc, NL))
        ELSE IF s[i + 1] = "t" THEN ParseStringBody(s, i + 2, Append(acc, "\t"))
        ELSE IF s[i + 1] = "r" THEN ParseStringBody(s, i + 2, Append(acc, "\r"))
        ELSE ParseFail
    \* a raw control character inside a literal is a syntax error
    ELSE IF s[i] \in {NL, "\t", "\r"} THEN ParseFail
    ELSE ParseStringBody(s, i + 1, Append(acc, s[i]))

RECURSIVE ParseDigits(_, _, _)
ParseDigits(s, i, acc) ==
    IF i <= Len(s) /\ IsDigit(s[i])
    THEN ParseDigits(s, i + 1, acc * 10 + DigitVal(s[i]))
    ELSE ParseOk(JSNum(acc), i)

RECURSIVE ParseValue(_, _)
RECURSIVE ParseMembers(_, _, _, _)

\* obj[key] = v while parsing: a repeated key keeps its first place and
\* takes the last value
SetProp(ks, vs, k, v) ==
    IF \E i \in 1..Len(ks) : ks[i] = k
    THEN [keys |-> ks,
          vals |-> [i \in 1..Len(vs) |-> IF ks[i] = k THEN v ELSE vs[i]]]
    ELSE [keys |-> Append(ks, k), vals |-> Append(vs, v)]

\* the members of an object, from the position after "{" or after a ",":
\* key, ":", value, then "}" or "," and the next member
ParseMembers(s, i0, ks, vs) ==
    LET i == SkipWs(s, i0)
    IN  IF i > Len(s) \/ s[i] # DQ THEN ParseFail
        ELSE LET k == ParseStringBody(s, i + 1, <<>>)
             IN  IF ~k.ok THEN ParseFail
                 ELSE LET c == SkipWs(s, k.next)
                      IN  IF c > Len(s) \/ s[c] # ":" THEN ParseFail
                          ELSE LET v == ParseValue(s, c + 1)
                               IN  IF ~v.ok THEN ParseFail
                                   ELSE LET e == SkipWs(s, v.next)
                                            m == SetProp(ks, vs, k.val.str, v.val)
                                        IN  IF e > Len(s) THEN ParseFail
                                            ELSE IF s[e] = "}"
                                            THEN ParseOk(JSObj(m.keys, m.vals), e + 1)
                                            ELSE IF s[e] = ","
                                            THEN ParseMembers(s, e + 1, m.keys, m.vals)
                                            ELSE ParseFail

\* one JSON value, leading white space skipped
ParseValue(s, i0) ==
    LET i == SkipWs(s, i0)
        j == SkipWs(s, i + 1)
    IN  IF i > Len(s) THEN ParseFail
        ELSE IF s[i] = DQ THEN ParseStringBody(s, i + 1, <<>>)
        ELSE IF s[i] = "{"
        THEN (IF j <= Len(s) /\ s[j] = "}" THEN ParseOk(JSObj(<<>>, <<>>), j + 1)
              ELSE ParseMembers(s, i + 1, <<>>, <<>>))
        ELSE IF MatchAt(s, i, <<"n","u","l","l">>) THEN ParseOk(JSNull, i + 4)
        ELSE IF MatchAt(s, i, <<"t","r","u","e">>) THEN ParseOk(JSBool(TRUE), i + 4)
        ELSE IF MatchAt(s, i, <<"f","a","l","s","e">>) THEN ParseOk(JSBool(FALSE), i + 5)
        ELSE IF IsDigit(s[i]) THEN ParseDigits(s, i, 0)
        ELSE ParseFail

\* JSON.parse(text): [ok |-> TRUE, val |-> v], or [ok |-> FALSE] where the code
\* gets a SyntaxError; the value must be followed by white space only
JSONParse(s) ==
    LET v == ParseValue(s, 1)
    IN  IF ~v.ok THEN ParseFail
        ELSE IF SkipWs(s, v.next) # Len(s) + 1 THEN ParseFail
        ELSE [ok |-> TRUE, val |-> v.val]

K_authorization == <<"a","u","t","h","o","r","i","z","a","t","i","o","n">>
K_cookie == <<"c","o","o","k","i","e">>

Spaces(n) == [i \in 1..n |-> " "]

RECURSIVE StringifyValue(_, _)
RECURSIVE StringifyMembers(_, _, _)

\* the members of an object from the i-th on, each on its own line
StringifyMembers(o, i, indent) ==
    IF i > Len(o.keys) THEN <<>>
    ELSE Spaces(indent) \o QuoteJSON(o.keys[i]) \o <<":", " ">>
            \o StringifyValue(o.vals[i], indent)
            \o (IF i < Len(o.keys) THEN <<",">> ELSE <<>>) \o <<NL>>
            \o StringifyMembers(o, i + 1, indent)

\* JSON.stringify(v, null, 2) of a value nested at the given indentation
StringifyValue(v, indent) ==
    IF v.type = "string" THEN QuoteJSON(v.str)
    ELSE IF v.type = "number" THEN Digits(v.num)
    ELSE IF v.type = "boolean"
        THEN (IF v.bool THEN <<"t","r","u","e">> ELSE <<"f","a","l","s","e">>)
    ELSE IF v.type = "object" THEN
        IF v.keys = <<>> THEN <<"{", "}">>
        ELSE <<"{", NL>> \o StringifyMembers(v, 1, indent + 2)
                \o Spaces(indent) \o <<"}">>
    ELSE <<"n","u","l","l">>

JSONStringify(v) == StringifyValue(v, 0)

\* ------------------------------------------------------------------------
\* More String methods
\* ------------------------------------------------------------------------

\* the lower-case form of one character
LowerChar(c) ==
    LET upper == <<"A","B","C","D","E","F","G","H","I","J","K","L","M","N","O","P","Q","R","S","T","U","V","W","X","Y","Z">>
        lower == <<"a","b","c","d","e","f","g","h","i","j","k","l","m","n","o","p","q","r","s","t","u","v","w","x","y","z">>
    IN  IF \E i \in 1..Len(upper) : upper[i] = c
        THEN lower[CHOOSE i \in 1..Len(upper) : upper[i] = c]
        ELSE c

\* String.prototype.toLowerCase
ToLowerCase(s) == [i \in 1..Len(s) |-> LowerChar(s[i])]

RECURSIVE TrimStart(_)
TrimStart(s) ==
    IF s # <<>> /\ IsWs(Head(s)) THEN TrimStart(Tail(s)) ELSE s

RECURSIVE TrimEnd(_)
TrimEnd(s) ==
    IF s # <<>> /\ IsWs(s[Len(s)]) THEN TrimEnd(SubSeq(s, 1, Len(s) - 1)) ELSE s

\* String.prototype.trim
Trim(s) == TrimEnd(TrimStart(s))

\* String.prototype.indexOf(c, from) for one character; 0 when there is none
IndexOfFrom(s, c, from) ==
    LET hits == {k \in from..Len(s) : s[k] = c}
    IN  IF hits = {} THEN 0 ELSE CHOOSE k \in hits : \A j \in hits : k <= j

\* ------------------------------------------------------------------------
\* Credentials (AuthInfo) and validateAuthInfo
\* ------------------------------------------------------------------------

S_Bearer == <<"B","e","a","r","e","r"," ">>

\* the object literal { authorization, cookie }
MkAuth(a, c) == JSObj(<<K_authorization, K_cookie>>, <<JSStr(a), JSStr(c)>>)

\* validateAuthInfo with every guard dropped: any value passes
validateAuthInfo_AcceptAll(a) == "true"

K_length == <<"l","e","n","g","t","h">>

\* value.length > 0 for the value of a property
LengthPositive(v) ==
    IF v.type = "string" THEN Len(v.str) > 0
    ELSE IF v.type = "object"
    THEN GetProp(v, K_length).type = "number" /\ GetProp(v, K_length).num > 0
    ELSE FALSE

\* validateAuthInfo(authInfo): "true", "false", or "throws" where the
\* property access or method call raises a TypeError
validateAuthInfo(a) ==
    LET au == IF a.type = "object" THEN GetProp(a, K_authorization) ELSE Undefined
        ck == IF a.type = "object" THEN GetProp(a, K_cookie) ELSE Undefined
    IN  IF a.type \in {"undefined", "null"} THEN "throws"
        ELSE IF au.type # "string" THEN "throws"
        ELSE IF ~StartsWith(au.str, S_Bearer) THEN "false"
        ELSE IF ck.type \in {"undefined", "null"} THEN "throws"
        ELSE IF LengthPositive(ck) THEN "true"
        ELSE "false"

\* ------------------------------------------------------------------------
\* The credential store: saveAuthInfo, loadAuthInfo, deleteAuthInfo.
\* The file is [exists, text]; wok tells whether the write system call of
\* this operation succeeds.
\* ------------------------------------------------------------------------

NoFile == [exists |-> FALSE, text |-> <<>>]
FileOf(t) == [exists |-> TRUE, text |-> t]

\* saveAuthInfo: Bun.write of the serialized credential; a failed write
\* raises
saveAuthInfo(f, a, wok) ==
    [file |-> IF wok THEN FileOf(JSONStringify(a)) ELSE f,
     raised |-> ~wok]

\* deleteAuthInfo with the try/catch left out
deleteAuthInfo_NoCatch(f, wok) ==
    [file |-> IF wok THEN FileOf(<<>>) ELSE f,
     raised |-> ~wok]

\* deleteAuthInfo: the file is overwritten with the empty string; a failed
\* write is swallowed
deleteAuthInfo(f, wok) ==
    [file |-> IF wok THEN FileOf(<<>>) ELSE f,
     raised |-> FALSE]

\* loadAuthInfo whose catch block does nothing
LoadTry_NoHeal(f, wok, p) ==
    [file |-> f,
     result |-> IF p.ok /\ validateAuthInfo(p.val) = "true" THEN p.val ELSE JSNull,
     raised |-> FALSE, healed |-> FALSE]

\* loadAuthInfo clearing the file also when validateAuthInfo returns false
LoadTry_ClearInvalid(f, wok, p) ==
    LET v == IF p.ok THEN validateAuthInfo(p.val) ELSE "throws"
    IN  IF v # "true"
        THEN [file |-> deleteAuthInfo(f, wok).file, result |-> JSNull,
              raised |-> deleteAuthInfo(f, wok).raised, healed |-> v = "throws"]
        ELSE [file |-> f, result |-> p.val, raised |-> FALSE, healed |-> FALSE]

\* the try block of loadAuthInfo and its catch, p being JSON.parse's outcome:
\* a SyntaxError or a TypeError leads to `await deleteAuthInfo()`
LoadTry(f, wok, p) ==
    LET v == IF p.ok THEN validateAuthInfo(p.val) ELSE "throws"
    IN  IF v = "throws"
        THEN [file |-> deleteAuthInfo(f, wok).file, result |-> JSNull,
              raised |-> deleteAuthInfo(f, wok).raised, healed |-> TRUE]
        ELSE [file |-> f, result |-> IF v = "true" THEN p.val ELSE JSNull,
              raised |-> FALSE, healed |-> FALSE]

\* loadAuthInfo: [file after, result (credential or null), raised, healed
\* (deleteAuthInfo was called from the catch block)]
loadAuthInfo(f, wok) ==
    IF ~f.exists
    THEN [file |-> f, result |-> JSNull, raised |-> FALSE, healed |-> FALSE]
    ELSE LoadTry(f, wok, JSONParse(f.text))

\* ------------------------------------------------------------------------
\* parseCurlCommand
\* ------------------------------------------------------------------------

\* the pieces f[lo], ..., f[hi] joined in order
RECURSIVE Joined(_, _, _)
Joined(f, lo, hi) ==
    IF lo > hi THEN <<>>
    ELSE IF lo = hi THEN f[lo]
    ELSE Joined(f, lo, (lo + hi) \div 2) \o Joined(f, (lo + hi) \div 2 + 1, hi)

\* .replace(/\\\s*\n\s*/g, " "), from position i on: a backslash followed by
\* a white-space run that holds a newline is replaced, run included, by one
\* space
RemoveContinuations(s, i) ==
    LET \* where the white-space run that holds position k starts
        runStart(k) == 1 + CHOOSE j \in 0..(k - 1) :
                              /\ j = 0 \/ ~IsWs(s[j])
                              /\ \A m \in (j + 1)..(k - 1) : IsWs(s[m])
        \* the run that starts at a follows a backslash and holds a newline
        continued(a) == /\ a > 1
                        /\ s[a - 1] = BS
                        /\ \E m \in a..(SkipWs(s, a) - 1) : s[m] = NL
        piece(k) == IF s[k] = BS
                    THEN (IF continued(k + 1) THEN <<" ">> ELSE <<BS>>)
                    ELSE IF IsWs(s[k]) /\ continued(runStart(k)) THEN <<>>
                    ELSE <<s[k]>>
    IN  Joined([k \in 1..Len(s) |-> piece(k)], i, Len(s))

\* .replace(/\\\n/g, " "), from position i on
RemoveBackslashNewline(s, i) ==
    LET piece(k) == IF s[k] = BS /\ k < Len(s) /\ s[k + 1] = NL THEN <<" ">>
                    ELSE IF s[k] = NL /\ k > 1 /\ s[k - 1] = BS THEN <<>>
                    ELSE <<s[k]>>
    IN  Joined([k \in 1..Len(s) |-> piece(k)], i, Len(s))

\* .replace(/\s+/g, " "), from position i on
CollapseWs(s, i) ==
    LET piece(k) == IF ~IsWs(s[k]) THEN <<s[k]>>
                    ELSE IF k > 1 /\ IsWs(s[k - 1]) THEN <<>>
                    ELSE <<" ">>
    IN  Joined([k \in 1..Len(s) |-> piece(k)], i, Len(s))

\* the command trimmed, its line continuations left in place
NormalizeCommand_TrimOnly(cmd) == Trim(cmd)

\* normalizedCommand
NormalizeCommand(cmd) ==
    Trim(CollapseWs(RemoveBackslashNewline(RemoveContinuations(cmd, 1), 1), 1))

\* One pattern of the two lists:
\*   flag \s+ q [head \s* [Bearer \s+]] ([^q]+) q
\* flag is the option, q the quote, head the header name with its colon
\* (empty for the cookie options), bearer whether "Bearer" must follow the
\* head, ci the /i flag.
Pat(flag, q, head, bearer, ci) ==
    [flag |-> flag, q |-> q, head |-> head, bearer |-> bearer, ci |-> ci]

SQ == "'"

authPatterns ==
    << Pat(<<"-","H">>, SQ, <<"a","u","t","h","o","r","i","z","a","t","i","o","n",":">>, TRUE, TRUE),
       Pat(<<"-","H">>, DQ, <<"a","u","t","h","o","r","i","z","a","t","i","o","n",":">>, TRUE, TRUE),
       Pat(<<"-","-","h","e","a","d","e","r">>, SQ, <<"a","u","t","h","o","r","i","z","a","t","i","o","n",":">>, TRUE, TRUE),
       Pat(<<"-","-","h","e","a","d","e","r">>, DQ, <<"a","u","t","h","o","r","i","z","a","t","i","o","n",":">>, TRUE, TRUE) >>

\* the cookie rules with the header rules listed before the option rules
cookiePatterns_HeaderFirst ==
    << Pat(<<"-","H">>, SQ, <<"c","o","o","k","i","e",":">>, FALSE, TRUE),
       Pat(<<"-","H">>, DQ, <<"c","o","o","k","i","e",":">>, FALSE, TRUE),
       Pat(<<"-","-","h","e","a","d","e","r">>, SQ, <<"c","o","o","k","i","e",":">>, FALSE, TRUE),
       Pat(<<"-","-","h","e","a","d","e","r">>, DQ, <<"c","o","o","k","i","e",":">>, FALSE, TRUE),
       Pat(<<"-","b">>, SQ, <<>>, FALSE, FALSE),
       Pat(<<"-","b">>, DQ, <<>>, FALSE, FALSE),
       Pat(<<"-","-","c","o","o","k","i","e">>, SQ, <<>>, FALSE, FALSE),
       Pat(<<"-","-","c","o","o","k","i","e">>, DQ, <<>>, FALSE, FALSE) >>

cookiePatterns ==
    << Pat(<<"-","b">>, SQ, <<>>, FALSE, FALSE),
       Pat(<<"-","b">>, DQ, <<>>, FALSE, FALSE),
       Pat(<<"-","-","c","o","o","k","i","e">>, SQ, <<>>, FALSE, FALSE),
       Pat(<<"-","-","c","o","o","k","i","e">>, DQ, <<>>, FALSE, FALSE),
       Pat(<<"-","H">>, SQ, <<"c","o","o","k","i","e",":">>, FALSE, TRUE),
       Pat(<<"-","H">>, DQ, <<"c","o","o","k","i","e",":">>, FALSE, TRUE),
       Pat(<<"-","-","h","e","a","d","e","r">>, SQ, <<"c","o","o","k","i","e",":">>, FALSE, TRUE),
       Pat(<<"-","-","h","e","a","d","e","r">>, DQ, <<"c","o","o","k","i","e",":">>, FALSE, TRUE) >>

NoMatch == [ok |-> FALSE, cap |-> <<>>]

\* The capture group ([^q]+) followed by q, entered after a white-space run
\* s[a..b] (b = a - 1 when the run is empty) of which at least min
\* characters must stay with the \s that precedes the group. The run is
\* matched greedily and gives one character back when the group would
\* otherwise be empty.
MatchCapture(s, a, b, min, q) ==
    LET start == b + 1
        close == IndexOfFrom(s, q, start)
    IN  IF close = 0 THEN NoMatch
        ELSE IF close > start THEN [ok |-> TRUE, cap |-> SubSeq(s, start, close - 1)]
        ELSE IF (b - a + 1) > min THEN [ok |-> TRUE, cap |-> <<s[b]>>]
        ELSE NoMatch

\* the pattern p matched with its first character at position i of s; t is
\* the text the literals are compared with (s lower-cased under /i)
MatchPatternAt(s, t, i, p) ==
    LET lit(x) == IF p.ci THEN ToLowerCase(x) ELSE x
        j == i + Len(p.flag)
        k == SkipWs(s, j)
    IN  IF ~MatchAt(t, i, lit(p.flag)) THEN NoMatch
        ELSE IF k = j \/ k > Len(s) \/ s[k] # p.q THEN NoMatch
        ELSE IF p.head = <<>> THEN MatchCapture(s, k + 1, k, 0, p.q)
        ELSE IF ~MatchAt(t, k + 1, lit(p.head)) THEN NoMatch
        ELSE LET h == k + 1 + Len(p.head)
                 w == SkipWs(s, h)
             IN  IF ~p.bearer THEN MatchCapture(s, h, w - 1, 0, p.q)
                 ELSE IF ~MatchAt(t, w, lit(<<"B","e","a","r","e","r">>)) THEN NoMatch
                 ELSE LET x == w + 6
                          y == SkipWs(s, x)
                      IN  IF y = x THEN NoMatch
                          ELSE MatchCapture(s, x, y - 1, 1, p.q)

\* s.match(p): the leftmost match
MatchPattern(s, p) ==
    LET t == IF p.ci THEN ToLowerCase(s) ELSE s
        hits == {i \in 1..Len(s) : MatchPatternAt(s, t, i, p).ok}
    IN  IF hits = {} THEN NoMatch
        ELSE MatchPatternAt(s, t, CHOOSE i \in hits : \A j \in hits : i <= j, p)

RECURSIVE FirstMatch(_, _, _)

\* if (match && match[1]) { ...; break; }
FirstMatchOr(m, s, pats, n) == IF m.ok THEN m ELSE FirstMatch(s, pats, n + 1)

\* the for loop over a pattern list: the first pattern that matches decides
FirstMatch(s, pats, n) ==
    IF n > Len(pats) THEN NoMatch
    ELSE FirstMatchOr(MatchPattern(s, pats[n]), s, pats, n)

\* the check that names both fields whenever one of them is missing
CurlCredential_NameBoth(am, cm) ==
    IF am.ok /\ Trim(am.cap) # <<>> /\ cm.ok /\ Trim(cm.cap) # <<>>
    THEN [ok |-> TRUE, auth |-> MkAuth(S_Bearer \o Trim(am.cap), Trim(cm.cap))]
    ELSE [ok |-> FALSE, missing |-> <<"Authorization", "Cookie">>]

\* the values the two loops leave in authorization and cookie, the check of
\* the two and the return of parseCurlCommand
CurlCredential(am, cm) ==
    LET authorization == IF am.ok THEN S_Bearer \o Trim(am.cap) ELSE <<>>
        cookie == IF cm.ok THEN Trim(cm.cap) ELSE <<>>
    IN  IF authorization = <<>> \/ cookie = <<>>
        THEN [ok |-> FALSE,
              missing |-> (IF authorization = <<>> THEN <<"Authorization">> ELSE <<>>)
                          \o (IF cookie = <<>> THEN <<"Cookie">> ELSE <<>>)]
        ELSE [ok |-> TRUE, auth |-> MkAuth(authorization, cookie)]

\* the two loops over the pattern lists, on the normalized command
CurlMatches(n) ==
    CurlCredential(FirstMatch(n, authPatterns, 1), FirstMatch(n, cookiePatterns, 1))

\* parseCurlCommand(curlCommand): [ok |-> TRUE, auth |-> AuthInfo], or
\* [ok |-> FALSE, missing |-> the names in the thrown message]
parseCurlCommand(cmd) == CurlMatches(NormalizeCommand(cmd))

\* ------------------------------------------------------------------------
\* httpGet and the three API calls
\* ------------------------------------------------------------------------

\* What the network gives back to fetch(): no response at all, or a status
\* with a body that is the JSON envelope {code, msg, list} or is not JSON.
NetError == [kind |-> "neterr"]
HttpResponse(status, body) == [kind |-> "http", status |-> status, body |-> body]
Envelope(code, msg, list) == [json |-> TRUE, code |-> code, msg |-> msg, list |-> list]
NotJsonBody == [json |-> FALSE]

\* the message of `HTTP error! status: ${response.status}`
HttpErrorMessage(status) == <<"H","T","T","P"," ","e","r","r","o","r","!"," ","s","t","a","t","u","s",":"," ">> \o Digits(status)

\* httpGet throwing an Error whose message leaves the status out
httpGet_NoStatus(resp) ==
    IF resp.kind = "neterr" THEN [ok |-> FALSE, message |-> <<"f","e","t","c","h"," ","f","a","i","l","e","d">>]
    ELSE IF ~(resp.status >= 200 /\ resp.status <= 299)
        THEN [ok |-> FALSE, message |-> <<"H","T","T","P"," ","e","r","r","o","r","!">>]
    ELSE IF ~resp.body.json THEN [ok |-> FALSE, message |-> <<"J","S","O","N"," ","P","a","r","s","e"," ","e","r","r","o","r">>]
    ELSE [ok |-> TRUE, data |-> resp.body]

\* httpGet: [ok |-> TRUE, data |-> envelope], or [ok |-> FALSE, message |-> m]
\* where it throws an Error with message m
httpGet(resp) ==
    IF resp.kind = "neterr" THEN [ok |-> FALSE, message |-> <<"f","e","t","c","h"," ","f","a","i","l","e","d">>]
    ELSE IF ~(resp.status >= 200 /\ resp.status <= 299)
        THEN [ok |-> FALSE, message |-> HttpErrorMessage(resp.status)]
    ELSE IF ~resp.body.json THEN [ok |-> FALSE, message |-> <<"J","S","O","N"," ","P","a","r","s","e"," ","e","r","r","o","r">>]
    ELSE [ok |-> TRUE, data |-> resp.body]

\* the headers httpGet sends when authInfo is given
AuthHeaders(a) ==
    [authorization |-> GetProp(a, K_authorization), cookie |-> GetProp(a, K_cookie)]

\* JavaScript truthiness
Truthy(v) ==
    IF v.type \in {"undefined", "null", "NaN"} THEN FALSE
    ELSE IF v.type = "string" THEN v.str # <<>>
    ELSE IF v.type = "number" THEN v.num # 0
    ELSE IF v.type = "boolean" THEN v.bool
    ELSE TRUE

\* getBuildings(authInfo): the request it issues
getBuildingsRequest(a) == [api |-> "buildings", headers |-> AuthHeaders(a)]

\* formatDate: String(n).padStart(2, "0")
PadStart2(n) == IF n < 10 THEN <<"0">> \o Digits(n) ELSE Digits(n)

\* formatDate(date) for a date with the local fields [year, month, day]
formatDate(date) ==
    Digits(date.year) \o <<"-">> \o PadStart2(date.month) \o <<"-">> \o PadStart2(date.day)

\* getCourses(authInfo, date, buildingId): the request it issues; building_in
\* is appended only when buildingId is truthy
getCoursesRequest(a, date, buildingId) ==
    [api |-> "courses", headers |-> AuthHeaders(a),
     search_time |-> formatDate(date),
     building_in |-> IF Truthy(buildingId) THEN JSStr(Digits(buildingId.num)) ELSE Undefined]

\* getVideoInfo(authInfo, courseId, subId): the request it issues
getVideoInfoRequest(a, courseId, subId) ==
    [api |-> "video", headers |-> AuthHeaders(a), course_id |-> courseId, sub_id |-> subId]

\* ------------------------------------------------------------------------
\* extractVideoUrl
\* ------------------------------------------------------------------------

K_save_playback == <<"s","a","v","e","_","p","l","a","y","b","a","c","k">>
K_contents == <<"c","o","n","t","e","n","t","s">>

\* property read on any value: undefined on a primitive, a TypeError
\* ("throws") on null and undefined
ReadProp(v, key) ==
    IF v.type \in {"undefined", "null"} THEN [throws |-> TRUE, val |-> Undefined]
    ELSE IF v.type = "object" THEN [throws |-> FALSE, val |-> GetProp(v, key)]
    ELSE [throws |-> FALSE, val |-> Undefined]

\* the try block of extractVideoUrl with its catch left out
PlaybackContents_NoTry(p) ==
    LET sp == IF p.ok THEN ReadProp(p.val, K_save_playback)
              ELSE [throws |-> TRUE, val |-> Undefined]
        ct == ReadProp(sp.val, K_contents).val
    IN  IF sp.throws THEN [raised |-> TRUE, url |-> JSNull]
        ELSE IF Truthy(sp.val) /\ Truthy(ct) THEN [raised |-> FALSE, url |-> ct]
        ELSE [raised |-> FALSE, url |-> JSNull]

\* the try block of extractVideoUrl reading the live stream's address
PlaybackContents_Live(p) ==
    LET sp == IF p.ok THEN ReadProp(p.val, <<"l","i","v","e">>)
              ELSE [throws |-> TRUE, val |-> Undefined]
        ct == ReadProp(sp.val, K_contents).val
    IN  IF ~sp.throws /\ Truthy(sp.val) /\ Truthy(ct)
        THEN [raised |-> FALSE, url |-> ct]
        ELSE [raised |-> FALSE, url |-> JSNull]

\* the try block of extractVideoUrl and its catch, p being JSON.parse's
\* outcome: content.save_playback, then its contents when both are truthy
PlaybackContents(p) ==
    LET sp == IF p.ok THEN ReadProp(p.val, K_save_playback)
              ELSE [throws |-> TRUE, val |-> Undefined]
        ct == ReadProp(sp.val, K_contents).val
    IN  IF ~sp.throws /\ Truthy(sp.val) /\ Truthy(ct)
        THEN [raised |-> FALSE, url |-> ct]
        ELSE [raised |-> FALSE, url |-> JSNull]

\* extractVideoUrl(videoResponse): [raised, url], url being null or the
\* value of save_playback.contents
extractVideoUrl(videoResponse) ==
    IF videoResponse.list = <<>> \/ ~Truthy(videoResponse.list[1].sub_content)
    THEN [raised |-> FALSE, url |-> JSNull]
    ELSE PlaybackContents(JSONParse(videoResponse.list[1].sub_content.str))

S_m3u8 == <<".","m","3","u","8">>

\* const videoType = videoUrl.includes(".m3u8") ? "m3u8" : "mp4"
VideoTypeOf(url) == IF Includes(url, S_m3u8) THEN "m3u8" ELSE "mp4"

\* ------------------------------------------------------------------------
\* handleApiError's classification, filterCourses, option values
\* ------------------------------------------------------------------------

\* error.message || String(error) for an Error object
ErrorText(message) == IF message = <<>> THEN <<"E","r","r","o","r">> ELSE message

\* the classification that misses the 401 status
IsAuthError_No401(errorMsg) ==
    \/ Includes(errorMsg, <<"4","0","3">>)
    \/ Includes(errorMsg, <<"U","n","a","u","t","h","o","r","i","z","e","d">>)
    \/ Includes(errorMsg, <<"F","o","r","b","i","d","d","e","n">>)

\* the test of handleApiError that decides whether deleteAuthInfo is called
IsAuthError(errorMsg) ==
    \/ Includes(errorMsg, <<"4","0","1">>)
    \/ Includes(errorMsg, <<"4","0","3">>)
    \/ Includes(errorMsg, <<"U","n","a","u","t","h","o","r","i","z","e","d">>)
    \/ Includes(errorMsg, <<"F","o","r","b","i","d","d","e","n">>)

\* a filter callback that looks at the title alone
CourseMatches_TitleOnly(course, term) ==
    Includes(ToLowerCase(course.title), term)

\* the predicate of filterCourses' filter callback
CourseMatches(course, term) ==
    \/ Includes(ToLowerCase(course.title), term)
    \/ Includes(ToLowerCase(course.lecturer_name), term)
    \/ Includes(ToLowerCase(course.room_name), term)

\* courses.filter(...)
RECURSIVE FilterMatching(_, _)
FilterMatching(courses, term) ==
    IF courses = <<>> THEN <<>>
    ELSE (IF CourseMatches(Head(courses), term) THEN <<Head(courses)>> ELSE <<>>)
         \o FilterMatching(Tail(courses), term)

\* filterCourses(courses, searchTerm)
filterCourses(courses, searchTerm) ==
    IF searchTerm = <<>> THEN courses
    ELSE FilterMatching(courses, Trim(ToLowerCase(searchTerm)))

\* allCourses: the lists of all time slots, concatenated in order
RECURSIVE FlattenSlots(_)
FlattenSlots(slots) ==
    IF slots = <<>> THEN <<>> ELSE Head(slots).list \o FlattenSlots(Tail(slots))

\* buildingOptions: "all" first, then `${campus_id}-${building_id}` for each
\* building of each campus, in order
RECURSIVE BuildingValues(_)
BuildingValues(campuses) ==
    IF campuses = <<>> THEN <<>>
    ELSE [i \in 1..Len(Head(campuses).building_list) |->
              Digits(Head(campuses).campus_id) \o <<"-">>
                  \o Digits(Head(campuses).building_list[i].building_id)]
         \o BuildingValues(Tail(campuses))

S_all == <<"a","l","l">>

buildingOptions(campuses) == <<S_all>> \o BuildingValues(campuses)

\* String.prototype.split("-")
RECURSIVE SplitDash(_)
SplitDash(s) ==
    LET k == IndexOfFrom(s, "-", 1)
    IN  IF k = 0 THEN <<s>>
        ELSE <<SubSeq(s, 1, k - 1)>> \o SplitDash(SubSeq(s, k + 1, Len(s)))

\* parseInt(s): the value of the leading digits, NaN when there are none
ParseInt(s) ==
    LET t == TrimStart(s)
    IN  IF t = <<>> \/ ~IsDigit(t[1]) THEN [type |-> "NaN"]
        ELSE ParseDigits(t, 1, 0).val

\* buildingId of main: undefined for "all", else
\* parseInt(selectedBuilding.split("-")[1] || "0")
BuildingIdOf(selectedBuilding) ==
    IF selectedBuilding = S_all THEN Undefined
    ELSE LET parts == SplitDash(selectedBuilding)
             second == IF Len(parts) >= 2 /\ parts[2] # <<>> THEN parts[2] ELSE <<"0">>
         IN  ParseInt(second)

\* courseOptions value `${course.id}-${course.sub_id}`
CourseValue(course) == course.id \o <<"-">> \o course.sub_id

\* const [courseId = "", subId = ""] = selectedCourse.split("-")
CourseIdsOf(selectedCourse) ==
    LET parts == SplitDash(selectedCourse)
    IN  [courseId |-> parts[1],
         subId |-> IF Len(parts) >= 2 THEN parts[2] ELSE <<>>]

\* ------------------------------------------------------------------------
\* Inputs: what the user types, what the file holds before the first run,
\* and what the server answers
\* ------------------------------------------------------------------------

\* the symbol a cancelled prompt returns (p.isCancel)
Cancel == <<"<cancel>">>

CredA == MkAuth(<<"B","e","a","r","e","r"," ","t">>, <<"c">>)

\* the credential file before the first run
FileInits ==
    { NoFile,
      FileOf(<<>>),
      FileOf(<<"n","o","t"," ","j","s","o","n">>),
      FileOf(<<"{","\n"," "," ","\"","a","u","t","h","o","r","i","z","a","t","i","o","n","\"",":"," ","\"","B","e","a">>),
      FileOf(<<"n","u","l","l">>),
      FileOf(<<"{","\"","c","o","o","k","i","e","\"",":"," ","\"","c","\"","}">>),
      FileOf(JSONStringify(CredA)),
      FileOf(JSONStringify(MkAuth(<<"B","a","s","i","c"," ","t">>, <<"c">>))),
      FileOf(JSONStringify(MkAuth(<<"B","e","a","r","e","r"," ","t">>, <<>>))) }

\* The commands pasted at the curl prompt, by what they carry: the bearer
\* token of CredA and its cookie (both), one of the two, or neither, or the
\* token with the cookie in a cookie option and another cookie in a header
\* option, in any order (twoCookies). A
\* command is the curl word and the address followed by its options, on one
\* line or joined with line continuations; the credential options come in
\* every spelling parseCurlCommand looks for.
CurlCommands ==
    LET joiners == { <<" ">>, <<" ","\\","\n"," "," ">> }
        quotes == { SQ, DQ }
        token == <<"t">>
        cookie == <<"c">>
        \* flag 'name: value', gap being what separates the flag from its value
        header(gap, flag, q, name, value) ==
            flag \o gap \o q \o name \o <<":"," ">> \o value \o q
        \* flag 'value'
        option(flag, q, value) == flag \o <<" ">> \o q \o value \o q
        authOptions ==
            { header(<<" ">>, flag, q, <<"a","u","t","h","o","r","i","z","a","t","i","o","n">>, <<"B","e","a","r","e","r"," ">> \o token) :
                flag \in { <<"-","H">>, <<"-","-","h","e","a","d","e","r">> }, q \in quotes }
        cookieOptions ==
            { option(flag, q, cookie) : flag \in { <<"-","b">>, <<"-","-","c","o","o","k","i","e">> }, q \in quotes }
                \cup { header(<<" ">>, flag, q, <<"c","o","o","k","i","e">>, cookie) :
                         flag \in { <<"-","H">>, <<"-","-","h","e","a","d","e","r">> }, q \in quotes }
        with(cmd, opt, j) == IF opt = <<>> THEN cmd ELSE cmd \o j \o opt
        command(a, c, j) == with(with(<<"c","u","r","l"," ","'","h","t","t","p","s",":","/","/","h","/","p","'">>, a, j), c, j)
        basic == header(<<" ">>, <<"-","H">>, SQ, <<"a","u","t","h","o","r","i","z","a","t","i","o","n">>, <<"B","a","s","i","c"," ">> \o token)
        bearer == header(<<" ">>, <<"-","H">>, SQ, <<"a","u","t","h","o","r","i","z","a","t","i","o","n">>, <<"B","e","a","r","e","r"," ">> \o token)
        \* the cookie of CredA through a cookie option
        dedicated ==
            { option(flag, q, cookie) : flag \in { <<"-","b">>, <<"-","-","c","o","o","k","i","e">> }, q \in quotes }
        \* another cookie through a header option
        generic ==
            { header(<<" ">>, flag, q, <<"c","o","o","k","i","e">>, <<"d">>) :
                flag \in { <<"-","H">>, <<"-","-","h","e","a","d","e","r">> }, q \in quotes }
        three(x, y, z) == command(x, y, <<" ">>) \o <<" ">> \o z
    IN  [ twoCookies |->
            { three(bearer, d, g) : d \in dedicated, g \in generic }
                \cup { three(g, bearer, d) : d \in dedicated, g \in generic }
                \cup { three(g, d, bearer) : d \in dedicated, g \in generic },
          both |->
            { command(a, c, j) : a \in authOptions, c \in cookieOptions, j \in joiners }
                \cup { command(header(<<" ">>, <<"-","H">>, SQ, <<"A","u","t","h","o","r","i","z","a","t","i","o","n">>, <<"b","e","a","r","e","r"," ">> \o token),
                               header(<<" ">>, <<"-","H">>, DQ, <<"C","o","o","k","i","e">>, cookie), j) :
                         j \in joiners }
                \cup { command(header(j, <<"-","H">>, q, <<"a","u","t","h","o","r","i","z","a","t","i","o","n">>, <<"B","e","a","r","e","r"," ">> \o token),
                               header(j, <<"-","H">>, q, <<"c","o","o","k","i","e">>, cookie), j) :
                         j \in joiners, q \in quotes },
          onlyToken |->
            { command(a, <<>>, j) : a \in authOptions, j \in joiners }
                \cup { command(header(<<" ">>, <<"-","H">>, SQ, <<"a","u","t","h","o","r","i","z","a","t","i","o","n">>, <<"B","e","a","r","e","r"," ">> \o token),
                               option(<<"-","b">>, SQ, <<" ">>), <<" ">>) },
          onlyCookie |->
            { command(<<>>, c, j) : c \in cookieOptions, j \in joiners }
                \cup { command(basic, option(<<"-","b">>, SQ, cookie), <<" ">>) },
          neither |->
            { command(<<>>, <<>>, j) : j \in joiners } \cup { command(basic, <<>>, <<" ">>) } ]

\* what the user pastes at the curl prompt
CurlInputs ==
    { <<>> } \cup CurlCommands.both \cup CurlCommands.onlyToken
        \cup CurlCommands.onlyCookie \cup CurlCommands.neither
        \cup CurlCommands.twoCookies

\* what the user types at the two prompts of the manual method
ManualAuthInputs == { <<>>, <<"B","a","s","i","c"," ","t">>, <<"B","e","a","r","e","r"," ","t">> }
ManualCookieInputs == { <<>>, <<"c">>, <<"a","\"","b">> }

DateInputs == { <<"2","0","2","5","/","9","/","2","6">>, <<"2","0","2","5","-","0","9","-","2","6">> }

SearchTerms == { <<>>, <<"A","L","G","E","B","R","A">>, <<"r","2"," ">>, <<"z","z","z">> }

Building(id, name) == [building_id |-> id, building_name |-> name]
Campus(id, name, bs) == [campus_id |-> id, campus_name |-> name, building_list |-> bs]

OneCampusOneBuilding == << Campus(1, <<"M","a","i","n">>, <<Building(7, <<"B","7">>)>>) >>

TwoCampuses ==
    << Campus(1, <<"M","a","i","n">>, <<Building(7, <<"B","7">>)>>),
       Campus(2, <<"E","a","s","t">>, <<Building(0, <<"B","0">>)>>) >>

Course(id, sub, title, lecturer, room) ==
    [id |-> id, sub_id |-> sub, title |-> title, lecturer_name |-> lecturer,
     room_name |-> room]

TimeSlot(id, cs) == [id |-> id, list |-> cs]

Algebra == Course(<<"1","1">>, <<"5">>, <<"A","l","g","e","b","r","a">>, <<"L","i">>, <<"R","1">>)
Biology == Course(<<"1","2">>, <<"6">>, <<"B","i","o","l","o","g","y">>, <<"W","u">>, <<"R","2">>)
AdvancedAlgebra == Course(<<"1","3">>, <<"7">>, <<"A","d","v","a","n","c","e","d"," ","A","l","g","e","b","r","a">>, <<"L","i">>, <<"R","2">>)

OneSlotOneLecture == << TimeSlot(1, <<Algebra>>) >>

TwoSlots == << TimeSlot(1, <<Algebra, Biology>>), TimeSlot(2, <<AdvancedAlgebra>>) >>

\* the failures every endpoint can answer with
FailureResponses ==
    { NetError,
      HttpResponse(401, NotJsonBody),
      HttpResponse(403, NotJsonBody),
      HttpResponse(500, NotJsonBody),
      HttpResponse(200, NotJsonBody),
      HttpResponse(200, Envelope(1, <<"U","n","a","u","t","h","o","r","i","z","e","d">>, <<>>)),
      HttpResponse(200, Envelope(1, <<"F","o","r","b","i","d","d","e","n"," ","a","c","c","e","s","s">>, <<>>)),
      HttpResponse(200, Envelope(1, <<"b","u","s","y">>, <<>>)) }

BuildingsResponses ==
    FailureResponses
        \cup { HttpResponse(200, Envelope(1, <<"e","r","r"," ","1","4","0","3","0">>, <<>>)) }
        \cup { HttpResponse(200, Envelope(0, <<"o","k">>, l)) :
                 l \in {OneCampusOneBuilding, TwoCampuses} }

CoursesResponses ==
    FailureResponses
        \cup { HttpResponse(200, Envelope(0, <<"o","k">>, l)) :
                 l \in {<<>>, <<TimeSlot(1, <<>>)>>, OneSlotOneLecture, TwoSlots} }

Mp4Url == <<"h","t","t","p","s",":","/","/","x","/","y",".","m","p","4">>
M3u8Url == <<"h","t","t","p","s",":","/","/","x","/","y",".","m","3","u","8">>
M3u8QueryUrl == <<"h","t","t","p","s",":","/","/","x","/","y",".","m","3","u","8","?","k","=","1">>
M3u8DirUrl == <<"h","t","t","p","s",":","/","/","x","/","a",".","m","3","u","8","/","y",".","m","p","4">>

\* sub_content that carries save_playback.contents = url
SubContentWith(url) ==
    JSStr(<<"{","\"","s","a","v","e","_","p","l","a","y","b","a","c","k","\"",":","{","\"","c","o","n","t","e","n","t","s","\"",":">> \o QuoteJSON(url) \o <<"}","}">>)

VideoCourse(sub) == [title |-> <<"A","l","g","e","b","r","a">>, lecturer_name |-> <<"L","i">>, sub_content |-> sub]

\* the sub_content values a lecture detail can carry
SubContents ==
    { Undefined,
      JSNull,
      JSStr(<<>>),
      JSStr(<<"n","o","t"," ","j","s","o","n">>),
      JSStr(<<"n","u","l","l">>),
      JSStr(<<"{","}">>),
      JSStr(<<"{","\"","l","i","v","e","\"",":","{","\"","c","o","n","t","e","n","t","s","\"",":","\"","u","\"","}","}">>),
      JSStr(<<"{","\"","s","a","v","e","_","p","l","a","y","b","a","c","k","\"",":","n","u","l","l","}">>),
      JSStr(<<"{","\"","s","a","v","e","_","p","l","a","y","b","a","c","k","\"",":","{","}","}">>),
      JSStr(<<"{","\"","s","a","v","e","_","p","l","a","y","b","a","c","k","\"",":","{","\"","c","o","n","t","e","n","t","s","\"",":","\"","\"","}","}">>),
      JSStr(<<"{","\"","s","a","v","e","_","p","l","a","y","b","a","c","k","\"",":","{","\"","c","o","n","t","e","n","t","s","\"",":","7","}","}">>),
      SubContentWith(Mp4Url),
      SubContentWith(M3u8Url),
      SubContentWith(M3u8QueryUrl),
      SubContentWith(M3u8DirUrl) }

VideoLists == { <<>> } \cup { <<VideoCourse(s)>> : s \in SubContents }

VideoResponses ==
    FailureResponses
        \cup { HttpResponse(200, Envelope(0, <<"o","k">>, l)) : l \in VideoLists }

\* validate callback of the curl prompt
CurlPromptAccepts(v) == Len(v) > 0

\* validate callback of the authorization prompt
AuthorizationPromptAccepts(v) == v # <<>> /\ StartsWith(v, S_Bearer)

\* validate callback of the cookie prompt
CookiePromptAccepts(v) == Len(v) > 0

\* validate callback of the date prompt: /^\d{4}-\d{2}-\d{2}$/
DatePromptAccepts(v) ==
    /\ Len(v) = 10
    /\ \A i \in {1, 2, 3, 4, 6, 7, 9, 10} : IsDigit(v[i])
    /\ v[5] = "-"
    /\ v[8] = "-"

\* new Date("YYYY-MM-DD"), read back through getFullYear/getMonth()+1/getDate
DateOf(v) ==
    [year |-> ParseDigits(SubSeq(v, 1, 4), 1, 0).val.num,
     month |-> ParseDigits(SubSeq(v, 6, 7), 1, 0).val.num,
     day |-> ParseDigits(SubSeq(v, 9, 10), 1, 0).val.num]

\* ------------------------------------------------------------------------
\* State
\* ------------------------------------------------------------------------

VARIABLES
    run,                \* number of the current process run
    pc,                 \* the await main() is suspended at, or "exited"
    file,               \* .pku-cli-auth.json
    faulty,             \* whether writes to the file can fail in this behaviour
    savedAuth,          \* getAuthInfo: result of loadAuthInfo
    curlCommand,        \* getAuthInfo: the text pasted at the curl prompt
    authInfo,           \* main: the credential in use
    apiError,           \* message of the error handed to handleApiError
    buildingsResponse,  \* main: list of the locations response
    buildingId,         \* main
    date,               \* main
    coursesResponse,    \* main: list of the schedule response
    allCourses,         \* main
    searchTerm,         \* main
    filteredCourses,    \* main
    courseId,           \* main
    subId,              \* main
    videoResponse,      \* main: list of the lecture-detail response
    videoUrl,           \* main
    videoType,          \* main
    downloadPath,       \* which download branch was entered
    transfer,           \* downloadFile: its writer, its reader and the response body
    exitCode,           \* process exit status, -1 while running
    exitAt,             \* the place in the code where the run ended
    calls,              \* history: requests issued in this run, in order
    started,            \* history: stages begun in this run, in order
    completed,          \* history: stages that completed successfully
    failure,            \* history: the fetch failure of this run, if any
    deletedBy,          \* history: callers of deleteAuthInfo in this run
    saves,              \* history: number of saveAuthInfo calls in this run
    extracted,          \* history: what extractVideoUrl returned in this run
    parsed,             \* history: what parseCurlCommand made of curlCommand
    lastStore,          \* history: the last operation on the store
    stored              \* history: what the operations so far left in the store

locals ==
    << savedAuth, curlCommand, authInfo, apiError, buildingsResponse, buildingId,
       date, coursesResponse, allCourses, searchTerm, filteredCourses, courseId, subId,
       videoResponse, videoUrl, videoType, downloadPath >>

history == << calls, started, completed, failure, deletedBy, saves, extracted, parsed >>

vars ==
    << run, pc, file, faulty, locals, transfer, exitCode, exitAt, history, lastStore,
       stored >>

NoFailure == [step |-> "none", kind |-> "none", status |-> 0, msg |-> <<>>, response |-> NetError]

NotExtracted == [raised |-> FALSE, url |-> Undefined]

NotParsed == [ok |-> FALSE, missing |-> <<>>]

\* the content-length header of the response to downloadFile: absent, or
\* the size the server announces
ContentLengths == { JSNull, JSStr(<<"5">>) }

\* value.length of the chunks reader.read() gives
ChunkLengths == { 3 }

\* downloadFile has not been called
NoTransfer ==
    [writer |-> "none", reader |-> "none", body |-> "none",
     totalSize |-> JSNum(0), downloaded |-> 0, chunks |-> <<>>,
     progress |-> <<>>, result |-> "none", error |-> "none"]

\* nothing has operated on the store yet: the file is what it was found to be
NothingStored ==
    [kind |-> "unknown", cred |-> JSNull, replaced |-> FALSE, invalidated |-> FALSE]

NoStoreOp ==
    [op |-> "none", by |-> "none", arg |-> JSNull, before |-> NoFile,
     after |-> NoFile, wok |-> FALSE, raised |-> FALSE, result |-> JSNull,
     healed |-> FALSE, was |-> NothingStored]

\* outcomes of the write system call
WriteOutcomes == IF faulty THEN BOOLEAN ELSE {TRUE}

StageOrder == << "credential", "locations", "schedule", "detail", "resolve", "download" >>

\* the state of a run that has just started
FreshRun ==
    /\ pc = "start"
    /\ savedAuth = JSNull
    /\ curlCommand = Undefined
    /\ authInfo = JSNull
    /\ apiError = <<>>
    /\ buildingsResponse = <<>>
    /\ buildingId = Undefined
    /\ date = [year |-> 0, month |-> 0, day |-> 0]
    /\ coursesResponse = <<>>
    /\ allCourses = <<>>
    /\ searchTerm = Undefined
    /\ filteredCourses = <<>>
    /\ courseId = <<>>
    /\ subId = <<>>
    /\ videoResponse = <<>>
    /\ videoUrl = <<>>
    /\ videoType = "none"
    /\ downloadPath = "none"
    /\ transfer = NoTransfer
    /\ exitCode = -1
    /\ exitAt = "none"
    /\ calls = <<>>
    /\ started = <<>>
    /\ completed = <<>>
    /\ failure = NoFailure
    /\ deletedBy = <<>>
    /\ saves = 0
    /\ extracted = NotExtracted
    /\ parsed = NotParsed

Init ==
    /\ run = 1
    /\ file \in FileInits
    /\ faulty = FALSE
    /\ lastStore = NoStoreOp
    /\ stored = NothingStored
    /\ FreshRun

InitWriteFault ==
    /\ run = 1
    /\ file \in FileInits
    /\ faulty = TRUE
    /\ lastStore = NoStoreOp
    /\ stored = NothingStored
    /\ FreshRun

\* process.exit(code), or the end of main(), reached at the named place
Exit(code, at) ==
    /\ pc' = "exited"
    /\ exitCode' = code
    /\ exitAt' = at

Running(at) ==
    /\ pc' = at
    /\ UNCHANGED << exitCode, exitAt >>

\* the record of one store operation: who called which function with which
\* argument, the file before and after it, whether its write went through
\* (wok) and what it returned
StoreOp(op, by, arg, after, wok, raised, result, healed) ==
    [op |-> op, by |-> by, arg |-> arg, before |-> file, after |-> after,
     wok |-> wok, raised |-> raised, result |-> result, healed |-> healed,
     was |-> stored]

\* what the operations so far left in the store: the credential of the last
\* save whose write went through (replaced: it took the place of another
\* saved credential), or nothing after a clearing whose write went through;
\* invalidated: deleteAuthInfo was called since the last saveAuthInfo
StoredAfter(op, arg, wrote, deleted) ==
    [kind |-> IF ~wrote THEN stored.kind
              ELSE IF op = "save" THEN "saved" ELSE "cleared",
     cred |-> IF ~wrote THEN stored.cred
              ELSE IF op = "save" THEN arg ELSE JSNull,
     replaced |-> IF ~wrote THEN stored.replaced
                  ELSE op = "save" /\ stored.kind = "saved" /\ stored.cred # arg,
     invalidated |-> IF op = "save" THEN FALSE ELSE deleted \/ stored.invalidated]

\* ------------------------------------------------------------------------
\* getAuthInfo
\* ------------------------------------------------------------------------

\* what getAuthInfo does with the outcome r of loadAuthInfo
Loaded(r, wok) ==
    /\ file' = r.file
    /\ lastStore' = StoreOp("load", "getAuthInfo", JSNull, r.file, wok, r.raised,
                            r.result, r.healed)
    /\ stored' = StoredAfter("load", JSNull, r.healed /\ wok, r.healed)
    /\ deletedBy' = IF r.healed THEN Append(deletedBy, "loadAuthInfo")
                    ELSE deletedBy
    /\ started' = Append(started, "credential")
    /\ IF r.raised
       THEN /\ Exit(1, "outerCatch")
            /\ UNCHANGED savedAuth
       ELSE /\ savedAuth' = r.result
            /\ Running(IF Truthy(r.result) THEN "confirmUse" ELSE "selectMethod")

\* const savedAuth = await loadAuthInfo()
LoadAuth ==
    /\ pc = "start"
    /\ \E wok \in WriteOutcomes : Loaded(loadAuthInfo(file, wok), wok)
    /\ UNCHANGED << run, faulty, curlCommand, authInfo, apiError,
                    buildingsResponse, buildingId, date, coursesResponse,
                    allCourses, searchTerm, filteredCourses, courseId, subId,
                    videoResponse, videoUrl, videoType, downloadPath, calls,
                    completed, failure, saves, extracted, parsed, transfer >>

\* p.confirm "use the saved credential?"
ConfirmUse ==
    /\ pc = "confirmUse"
    /\ \E ans \in {"cancel", "yes", "no"} :
         CASE ans = "cancel" ->
                /\ Exit(0, "cancel")
                /\ UNCHANGED << authInfo, completed >>
           [] ans = "yes" ->
                /\ authInfo' = savedAuth
                /\ completed' = Append(completed, "credential")
                /\ Running("getBuildings")
           [] ans = "no" ->
                /\ Running("selectMethod")
                /\ UNCHANGED << authInfo, completed >>
    /\ UNCHANGED << run, file, faulty, savedAuth, curlCommand, apiError,
                    buildingsResponse, buildingId, date, coursesResponse,
                    allCourses, searchTerm, filteredCourses, courseId, subId,
                    videoResponse, videoUrl, videoType, downloadPath, calls,
                    started, failure, deletedBy, saves, extracted, parsed,
                    lastStore, stored, transfer >>

\* p.select of the input method
SelectMethod ==
    /\ pc = "selectMethod"
    /\ \E m \in {"cancel", "curl", "manual"} :
         CASE m = "cancel" -> Exit(0, "cancel")
           [] m = "curl" -> Running("pasteCurl")
           [] m = "manual" -> Running("manualInput")
    /\ UNCHANGED << run, file, faulty, locals, history, lastStore, stored,
                    transfer >>

\* parseCurlCommand(curlCommand) for each text the prompt can return
ParsedInputs == [value \in CurlInputs |-> parseCurlCommand(value)]

\* the curl prompt, parseCurlCommand and validateAuthInfo; an input the
\* validate callback rejects leaves the prompt open
Parsed(r) ==
    /\ parsed' = r
    /\ IF r.ok /\ validateAuthInfo(r.auth) = "true"
       THEN /\ authInfo' = r.auth
            /\ completed' = Append(completed, "credential")
            /\ Running("getBuildings")
       ELSE /\ Exit(1, "parseFailed")
            /\ UNCHANGED << authInfo, completed >>

PasteCurl ==
    /\ pc = "pasteCurl"
    /\ \E value \in CurlInputs \cup {Cancel} :
         IF value = Cancel
         THEN /\ Exit(0, "cancel")
              /\ UNCHANGED << curlCommand, authInfo, completed, parsed >>
         ELSE /\ CurlPromptAccepts(value)
              /\ curlCommand' = value
              /\ Parsed(ParsedInputs[value])
    /\ UNCHANGED << run, file, faulty, savedAuth, apiError, buildingsResponse,
                    buildingId, date, coursesResponse, allCourses, searchTerm,
                    filteredCourses, courseId, subId, videoResponse, videoUrl,
                    videoType, downloadPath, calls, started, failure, deletedBy,
                    saves, extracted, lastStore, stored, transfer >>

\* the two prompts of the manual method
ManualInput ==
    /\ pc = "manualInput"
    /\ \E authorization \in ManualAuthInputs \cup {Cancel},
          cookie \in ManualCookieInputs \cup {Cancel} :
         IF authorization = Cancel
         THEN /\ Exit(0, "cancel")
              /\ UNCHANGED << authInfo, completed >>
         ELSE /\ AuthorizationPromptAccepts(authorization)
              /\ IF cookie = Cancel
                 THEN /\ Exit(0, "cancel")
                      /\ UNCHANGED << authInfo, completed >>
                 ELSE /\ CookiePromptAccepts(cookie)
                      /\ authInfo' = MkAuth(authorization, cookie)
                      /\ completed' = Append(completed, "credential")
                      /\ Running("getBuildings")
    /\ UNCHANGED << run, file, faulty, savedAuth, curlCommand, apiError,
                    buildingsResponse, buildingId, date, coursesResponse,
                    allCourses, searchTerm, filteredCourses, courseId, subId,
                    videoResponse, videoUrl, videoType, downloadPath, calls,
                    started, failure, deletedBy, saves, extracted, parsed,
                    lastStore, stored, transfer >>

\* ------------------------------------------------------------------------
\* main
\* ------------------------------------------------------------------------

\* the failure of a fetch step as the history records it: the step, the
\* response the network gave, and the message the program reports (the
\* message of the Error httpGet threw, or the msg main reads from the
\* envelope)
TransportFailure(step, resp, message) ==
    [step |-> step, kind |-> "transport",
     status |-> IF resp.kind = "http" THEN resp.status ELSE 0, msg |-> message,
     response |-> resp]

ApplicationFailure(step, resp, message) ==
    [step |-> step, kind |-> "application", status |-> resp.status,
     msg |-> message, response |-> resp]

\* await saveAuthInfo(authInfo) after the first successful request
SaveAfterBuildings(s, wok, list) ==
    /\ file' = s.file
    /\ saves' = saves + 1
    /\ lastStore' = StoreOp("save", "main", authInfo, s.file, wok, s.raised,
                            JSNull, FALSE)
    /\ stored' = StoredAfter("save", authInfo, wok, FALSE)
    /\ completed' = Append(completed, "locations")
    /\ UNCHANGED << apiError, failure >>
    /\ IF s.raised
       THEN /\ Exit(1, "outerCatch")
            /\ UNCHANGED buildingsResponse
       ELSE /\ buildingsResponse' = list
            /\ Running("selectBuilding")

\* the step with saveAuthInfo called before the outcome of the request is
\* looked at
BuildingsFetched_SaveFirst(resp, r, wok) ==
    /\ calls' = Append(calls, getBuildingsRequest(authInfo))
    /\ started' = Append(started, "locations")
    /\ file' = saveAuthInfo(file, authInfo, wok).file
    /\ saves' = saves + 1
    /\ lastStore' = StoreOp("save", "main", authInfo,
                            saveAuthInfo(file, authInfo, wok).file, wok, ~wok,
                            JSNull, FALSE)
    /\ stored' = StoredAfter("save", authInfo, wok, FALSE)
    /\ IF ~r.ok
       THEN /\ apiError' = r.message
            /\ failure' = TransportFailure("locations", resp, r.message)
            /\ Running("handleApiError")
            /\ UNCHANGED << buildingsResponse, completed >>
       ELSE IF r.data.code # 0
       THEN /\ apiError' = r.data.msg
            /\ failure' = ApplicationFailure("locations", resp, r.data.msg)
            /\ Running("handleApiError")
            /\ UNCHANGED << buildingsResponse, completed >>
       ELSE /\ completed' = Append(completed, "locations")
            /\ buildingsResponse' = r.data.list
            /\ Running("selectBuilding")
            /\ UNCHANGED << apiError, failure >>

\* the try/catch around getBuildings and the envelope check after it
BuildingsFetched(resp, r, wok) ==
    /\ calls' = Append(calls, getBuildingsRequest(authInfo))
    /\ started' = Append(started, "locations")
    /\ IF ~r.ok
       THEN /\ apiError' = r.message
            /\ failure' = TransportFailure("locations", resp, r.message)
            /\ Running("handleApiError")
            /\ UNCHANGED << file, buildingsResponse, completed, saves, lastStore, stored >>
       ELSE IF r.data.code # 0
       THEN /\ apiError' = r.data.msg
            /\ failure' = ApplicationFailure("locations", resp, r.data.msg)
            /\ Running("handleApiError")
            /\ UNCHANGED << file, buildingsResponse, completed, saves, lastStore, stored >>
       ELSE SaveAfterBuildings(saveAuthInfo(file, authInfo, wok), wok, r.data.list)

\* step 2: getBuildings, handleApiError on a failure, saveAuthInfo after the
\* first successful request
FetchBuildings ==
    /\ pc = "getBuildings"
    /\ \E resp \in BuildingsResponses, wok \in WriteOutcomes :
         BuildingsFetched(resp, httpGet(resp), wok)
    /\ curlCommand' = Undefined
    /\ parsed' = NotParsed
    /\ UNCHANGED << run, faulty, savedAuth, authInfo, buildingId, date,
                    coursesResponse, allCourses, searchTerm, filteredCourses,
                    courseId, subId, videoResponse, videoUrl, videoType,
                    downloadPath, deletedBy, extracted, transfer >>

\* await deleteAuthInfo() in handleApiError
Invalidated(d, wok) ==
    /\ file' = d.file
    /\ deletedBy' = Append(deletedBy, "handleApiError")
    /\ lastStore' = StoreOp("delete", "handleApiError", JSNull, d.file, wok,
                            d.raised, JSNull, FALSE)
    /\ stored' = StoredAfter("delete", JSNull, wok, TRUE)
    /\ IF d.raised THEN Exit(1, "outerCatch") ELSE Running("reportFailure")

\* handleApiError up to and including `await deleteAuthInfo()`
HandleApiError ==
    /\ pc = "handleApiError"
    /\ \E wok \in WriteOutcomes :
         IF IsAuthError(ErrorText(apiError))
         THEN Invalidated(deleteAuthInfo(file, wok), wok)
         ELSE /\ Running("reportFailure")
              /\ UNCHANGED << file, deletedBy, lastStore, stored >>
    /\ UNCHANGED << run, faulty, locals, calls, started, completed, failure,
                    saves, extracted, parsed, transfer >>

\* handleApiError: p.cancel(...) and process.exit(1)
ReportFailure ==
    /\ pc = "reportFailure"
    /\ Exit(1, "handleApiError")
    /\ UNCHANGED << run, file, faulty, locals, history, lastStore, stored,
                    transfer >>

\* step 3: p.select of the building
SelectBuilding ==
    /\ pc = "selectBuilding"
    /\ LET options == buildingOptions(buildingsResponse)
       IN  \E selectedBuilding \in {options[i] : i \in 1..Len(options)} \cup {Cancel} :
             IF selectedBuilding = Cancel
             THEN /\ Exit(0, "cancel")
                  /\ UNCHANGED buildingId
             ELSE /\ buildingId' = BuildingIdOf(selectedBuilding)
                  /\ Running("dateInput")
    /\ UNCHANGED << run, file, faulty, savedAuth, curlCommand, authInfo,
                    apiError, buildingsResponse, date, coursesResponse,
                    allCourses, searchTerm, filteredCourses, courseId, subId,
                    videoResponse, videoUrl, videoType, downloadPath, history,
                    lastStore, stored, transfer >>

\* step 4: the date prompt
DateInput ==
    /\ pc = "dateInput"
    /\ \E dateInput \in DateInputs \cup {Cancel} :
         IF dateInput = Cancel
         THEN /\ Exit(0, "cancel")
              /\ UNCHANGED date
         ELSE /\ DatePromptAccepts(dateInput)
              /\ date' = DateOf(dateInput)
              /\ Running("getCourses")
    /\ UNCHANGED << run, file, faulty, savedAuth, curlCommand, authInfo,
                    apiError, buildingsResponse, buildingId, coursesResponse,
                    allCourses, searchTerm, filteredCourses, courseId, subId,
                    videoResponse, videoUrl, videoType, downloadPath, history,
                    lastStore, stored, transfer >>

\* the schedule step asking again after a request that threw
CoursesFetched_Retry(resp, r) ==
    /\ calls' = Append(calls, getCoursesRequest(authInfo, date, buildingId))
    /\ started' = Append(started, "schedule")
    /\ IF ~r.ok
       THEN /\ Running("getCourses")
            /\ UNCHANGED << apiError, failure, coursesResponse, allCourses, completed >>
       ELSE IF r.data.code # 0
       THEN /\ failure' = ApplicationFailure("schedule", resp, r.data.msg)
            /\ Exit(1, "coursesCode")
            /\ UNCHANGED << apiError, coursesResponse, allCourses, completed >>
       ELSE /\ coursesResponse' = r.data.list
            /\ allCourses' = FlattenSlots(r.data.list)
            /\ completed' = Append(completed, "schedule")
            /\ UNCHANGED << apiError, failure >>
            /\ IF FlattenSlots(r.data.list) = <<>>
               THEN Exit(0, "noCourses")
               ELSE Running("searchTerm")

\* the try/catch around getCourses and the envelope check after it
CoursesFetched(resp, r) ==
    /\ calls' = Append(calls, getCoursesRequest(authInfo, date, buildingId))
    /\ started' = Append(started, "schedule")
    /\ IF ~r.ok
       THEN /\ apiError' = r.message
            /\ failure' = TransportFailure("schedule", resp, r.message)
            /\ Running("handleApiError")
            /\ UNCHANGED << coursesResponse, allCourses, completed >>
       ELSE IF r.data.code # 0
       THEN /\ failure' = ApplicationFailure("schedule", resp, r.data.msg)
            /\ Exit(1, "coursesCode")
            /\ UNCHANGED << apiError, coursesResponse, allCourses, completed >>
       ELSE /\ coursesResponse' = r.data.list
            /\ allCourses' = FlattenSlots(r.data.list)
            /\ completed' = Append(completed, "schedule")
            /\ UNCHANGED << apiError, failure >>
            /\ IF FlattenSlots(r.data.list) = <<>>
               THEN Exit(0, "noCourses")
               ELSE Running("searchTerm")

\* step 5: getCourses, the envelope check and the flattening of the slots
FetchCourses ==
    /\ pc = "getCourses"
    /\ \E resp \in CoursesResponses : CoursesFetched(resp, httpGet(resp))
    /\ UNCHANGED << run, file, faulty, savedAuth, curlCommand, authInfo,
                    buildingsResponse, buildingId, date, searchTerm,
                    filteredCourses, courseId, subId, videoResponse, videoUrl,
                    videoType, downloadPath, deletedBy, saves, extracted,
                    parsed, lastStore, stored, transfer >>

\* the search step requesting the schedule again when nothing matches
SearchCourses_Refetch ==
    /\ pc = "searchTerm"
    /\ \E term \in SearchTerms \cup {Cancel} :
         IF term = Cancel
         THEN /\ Exit(0, "cancel")
              /\ UNCHANGED << searchTerm, filteredCourses >>
         ELSE /\ searchTerm' = term
              /\ filteredCourses' = filterCourses(allCourses, term)
              /\ IF filterCourses(allCourses, term) = <<>>
                 THEN Running("getCourses")
                 ELSE Running("selectCourse")
    /\ UNCHANGED << run, file, faulty, savedAuth, curlCommand, authInfo,
                    apiError, buildingsResponse, buildingId, date,
                    coursesResponse, allCourses, courseId, subId, videoResponse,
                    videoUrl, videoType, downloadPath, history, lastStore,
                    stored, transfer >>

\* step 6: the search prompt and filterCourses
SearchCourses ==
    /\ pc = "searchTerm"
    /\ \E term \in SearchTerms \cup {Cancel} :
         IF term = Cancel
         THEN /\ Exit(0, "cancel")
              /\ UNCHANGED << searchTerm, filteredCourses >>
         ELSE /\ searchTerm' = term
              /\ filteredCourses' = filterCourses(allCourses, term)
              /\ IF filterCourses(allCourses, term) = <<>>
                 THEN Exit(0, "noMatch")
                 ELSE Running("selectCourse")
    /\ UNCHANGED << run, file, faulty, savedAuth, curlCommand, authInfo,
                    apiError, buildingsResponse, buildingId, date,
                    coursesResponse, allCourses, courseId, subId, videoResponse,
                    videoUrl, videoType, downloadPath, history, lastStore,
                    stored, transfer >>

\* step 7: p.select of the course
SelectCourse ==
    /\ pc = "selectCourse"
    /\ \E selectedCourse \in
            {CourseValue(filteredCourses[i]) : i \in 1..Len(filteredCourses)}
                \cup {Cancel} :
         IF selectedCourse = Cancel
         THEN /\ Exit(0, "cancel")
              /\ UNCHANGED << courseId, subId >>
         ELSE /\ courseId' = CourseIdsOf(selectedCourse).courseId
              /\ subId' = CourseIdsOf(selectedCourse).subId
              /\ Running("getVideo")
    /\ UNCHANGED << run, file, faulty, savedAuth, curlCommand, authInfo,
                    apiError, buildingsResponse, buildingId, date,
                    coursesResponse, allCourses, searchTerm, filteredCourses,
                    videoResponse, videoUrl, videoType, downloadPath, history,
                    lastStore, stored, transfer >>

\* const videoUrl = extractVideoUrl(videoResponse.data) and what follows:
\* the exit when there is no address, and videoType
Extracted(list, e) ==
    /\ videoResponse' = list
    /\ extracted' = e
    /\ started' = started \o << "detail", "resolve" >>
    /\ UNCHANGED << apiError, failure >>
    /\ IF e.raised
       THEN /\ Exit(1, "outerCatch")
            /\ completed' = Append(completed, "detail")
            /\ UNCHANGED << videoUrl, videoType >>
       ELSE IF ~Truthy(e.url)
       THEN /\ Exit(1, "noVideo")
            /\ completed' = Append(completed, "detail")
            /\ UNCHANGED << videoUrl, videoType >>
       ELSE IF e.url.type # "string"
       THEN \* videoUrl.includes is not a function
            /\ Exit(1, "outerCatch")
            /\ completed' = completed \o << "detail", "resolve" >>
            /\ UNCHANGED << videoUrl, videoType >>
       ELSE /\ videoUrl' = e.url.str
            /\ videoType' = VideoTypeOf(e.url.str)
            /\ completed' = completed \o << "detail", "resolve" >>
            /\ Running("askDownload")

\* the try/catch around getVideoInfo and the envelope check after it
VideoFetched(resp, r) ==
    /\ calls' = Append(calls, getVideoInfoRequest(authInfo, courseId, subId))
    /\ IF ~r.ok
       THEN /\ apiError' = r.message
            /\ failure' = TransportFailure("detail", resp, r.message)
            /\ started' = Append(started, "detail")
            /\ Running("handleApiError")
            /\ UNCHANGED << videoResponse, videoUrl, videoType, completed, extracted >>
       ELSE IF r.data.code # 0
       THEN /\ failure' = ApplicationFailure("detail", resp, r.data.msg)
            /\ started' = Append(started, "detail")
            /\ Exit(1, "videoCode")
            /\ UNCHANGED << apiError, videoResponse, videoUrl, videoType, completed,
                            extracted >>
       ELSE Extracted(r.data.list, extractVideoUrl(r.data))

\* step 8: getVideoInfo, the envelope check, extractVideoUrl and videoType
FetchVideo ==
    /\ pc = "getVideo"
    /\ \E resp \in VideoResponses : VideoFetched(resp, httpGet(resp))
    /\ UNCHANGED << run, file, faulty, savedAuth, curlCommand, authInfo,
                    buildingsResponse, buildingId, date, coursesResponse,
                    allCourses, searchTerm, filteredCourses, courseId, subId,
                    downloadPath, deletedBy, saves, parsed, lastStore, stored,
                    transfer >>

\* p.confirm "download the video?"
AskDownload ==
    /\ pc = "askDownload"
    /\ \E shouldDownload \in {"cancel", "no", "yes"} :
         CASE shouldDownload = "cancel" ->
                /\ Exit(0, "cancel")
                /\ UNCHANGED downloadPath
           [] shouldDownload = "no" ->
                /\ Exit(0, "outro")
                /\ UNCHANGED downloadPath
           [] shouldDownload = "yes" ->
                IF videoType = "m3u8"
                THEN /\ Running("chooseMethod")
                     /\ UNCHANGED downloadPath
                ELSE /\ Running("download")
                     /\ downloadPath' = "mp4-direct"
    /\ UNCHANGED << run, file, faulty, savedAuth, curlCommand, authInfo,
                    apiError, buildingsResponse, buildingId, date,
                    coursesResponse, allCourses, searchTerm, filteredCourses,
                    courseId, subId, videoResponse, videoUrl, videoType,
                    history, lastStore, stored, transfer >>

\* p.select of the download method for an m3u8 address
ChooseMethod ==
    /\ pc = "chooseMethod"
    /\ \E downloadMethod \in {"cancel", "ffmpeg", "direct"} :
         CASE downloadMethod = "cancel" ->
                /\ Exit(0, "cancel")
                /\ UNCHANGED downloadPath
           [] downloadMethod = "ffmpeg" ->
                /\ Running("confirmFfmpeg")
                /\ downloadPath' = "m3u8-ffmpeg"
           [] downloadMethod = "direct" ->
                /\ Running("download")
                /\ downloadPath' = "m3u8-direct"
    /\ UNCHANGED << run, file, faulty, savedAuth, curlCommand, authInfo,
                    apiError, buildingsResponse, buildingId, date,
                    coursesResponse, allCourses, searchTerm, filteredCourses,
                    courseId, subId, videoResponse, videoUrl, videoType,
                    history, lastStore, stored, transfer >>

\* p.confirm "run ffmpeg now?"; a cancel counts as no
ConfirmFfmpeg ==
    /\ pc = "confirmFfmpeg"
    /\ \E executeNow \in {"cancel", "no", "yes"} :
         IF executeNow = "yes" THEN Running("ffmpeg") ELSE Exit(0, "outro")
    /\ UNCHANGED << run, file, faulty, locals, history, lastStore, stored,
                    transfer >>

\* Bun.spawn(["ffmpeg", ...]) and its exit code; every outcome is logged and
\* main runs to its end
RunFfmpeg ==
    /\ pc = "ffmpeg"
    /\ \E outcome \in {"ok", "nonzero", "spawnError"} :
         /\ started' = Append(started, "download")
         /\ completed' = IF outcome = "ok" THEN Append(completed, "download")
                         ELSE completed
         /\ Exit(0, "outro")
    /\ UNCHANGED << run, file, faulty, locals, calls, failure, deletedBy, saves,
                    extracted, parsed, lastStore, stored, transfer >>

\* downloadFile up to its loop, fetched being what fetch() gave: no response,
\* a status that is not ok, a response without a body, or a body to read,
\* and contentLength the content-length header of the response (null when
\* the header is absent). totalSize is
\* parseInt(response.headers.get("content-length") || "0"). With a body,
\* file.writer() and body.getReader() are opened.
downloadFileStart(fetched, contentLength) ==
    IF fetched = "body"
    THEN [writer |-> "open", reader |-> "locked", body |-> "readable",
          totalSize |-> ParseInt(IF Truthy(contentLength) THEN contentLength.str
                                 ELSE <<"0">>),
          downloaded |-> 0, chunks |-> <<>>, progress |-> <<>>,
          result |-> "pending", error |-> "none"]
    ELSE [writer |-> "none", reader |-> "none",
          body |-> IF fetched = "status" THEN "unread" ELSE "none",
          totalSize |-> JSNum(0), downloaded |-> 0, chunks |-> <<>>,
          progress |-> <<>>, result |-> "threw", error |-> fetched]

\* One turn of the loop of downloadFile. read is what `await reader.read()`
\* gives (a chunk of value.length = length, done, or an error that leaves the
\* body errored) and wrote whether writer.write(value) went through. After a
\* write, downloaded += value.length and, when totalSize > 0,
\* onProgress(downloaded, totalSize) (main always passes a callback). The
\* loop ends with `await writer.end()`, in the try block when the body is
\* done and in the catch block, which throws the error again, after an error.
downloadFileStep(t, read, length, wrote) ==
    CASE read = "error" ->
            [t EXCEPT !.body = "errored", !.writer = "ended", !.result = "threw",
                      !.error = "read"]
      [] read = "done" ->
            [t EXCEPT !.body = "closed", !.writer = "ended", !.result = "returned"]
      [] read = "chunk" /\ ~wrote ->
            [t EXCEPT !.writer = "ended", !.result = "threw", !.error = "write"]
      [] read = "chunk" /\ wrote ->
            [t EXCEPT !.downloaded = @ + length,
                      !.chunks = Append(@, length),
                      !.progress =
                          IF t.totalSize.type = "number" /\ t.totalSize.num > 0
                          THEN Append(@, << t.downloaded + length, t.totalSize.num >>)
                          ELSE @]

\* await downloadFile(videoUrl, path, authInfo, onProgress): the request and
\* the opening of the writer and the reader. An error it throws is caught
\* and logged by main, which runs to its end.
Download ==
    /\ pc = "download"
    /\ \E fetched \in {"fetch", "status", "nobody", "body"},
          contentLength \in ContentLengths :
         /\ transfer' = downloadFileStart(fetched, contentLength)
         /\ IF fetched = "body" THEN Running("transfer") ELSE Exit(0, "outro")
    /\ started' = Append(started, "download")
    /\ UNCHANGED << run, file, faulty, locals, calls, completed, failure,
                    deletedBy, saves, extracted, parsed, lastStore, stored >>

\* the loop of downloadFile, one turn at a time, and what main does when
\* downloadFile returns or throws
Transfer ==
    /\ pc = "transfer"
    /\ \E read \in {"chunk", "done", "error"}, length \in ChunkLengths,
          wrote \in BOOLEAN :
         /\ read = "chunk" => Len(transfer.chunks) < MaxChunks
         /\ transfer' = downloadFileStep(transfer, read, length, wrote)
         /\ IF downloadFileStep(transfer, read, length, wrote).result = "pending"
            THEN /\ Running("transfer")
                 /\ UNCHANGED completed
            ELSE /\ Exit(0, "outro")
                 /\ completed' =
                        IF downloadFileStep(transfer, read, length, wrote).result = "returned"
                        THEN Append(completed, "download") ELSE completed
    /\ UNCHANGED << run, file, faulty, locals, calls, started, failure,
                    deletedBy, saves, extracted, parsed, lastStore, stored >>

\* the user starts the program again; only the file outlives a run
Restart ==
    /\ pc = "exited"
    /\ run < MaxRuns
    /\ run' = run + 1
    /\ pc' = "start"
    /\ savedAuth' = JSNull
    /\ curlCommand' = Undefined
    /\ authInfo' = JSNull
    /\ apiError' = <<>>
    /\ buildingsResponse' = <<>>
    /\ buildingId' = Undefined
    /\ date' = [year |-> 0, month |-> 0, day |-> 0]
    /\ coursesResponse' = <<>>
    /\ allCourses' = <<>>
    /\ searchTerm' = Undefined
    /\ filteredCourses' = <<>>
    /\ courseId' = <<>>
    /\ subId' = <<>>
    /\ videoResponse' = <<>>
    /\ videoUrl' = <<>>
    /\ videoType' = "none"
    /\ downloadPath' = "none"
    /\ transfer' = NoTransfer
    /\ exitCode' = -1
    /\ exitAt' = "none"
    /\ calls' = <<>>
    /\ started' = <<>>
    /\ completed' = <<>>
    /\ failure' = NoFailure
    /\ deletedBy' = <<>>
    /\ saves' = 0
    /\ extracted' = NotExtracted
    /\ parsed' = NotParsed
    /\ UNCHANGED << file, faulty, lastStore, stored >>

Next ==
    \/ LoadAuth
    \/ ConfirmUse
    \/ SelectMethod
    \/ PasteCurl
    \/ ManualInput
    \/ FetchBuildings
    \/ HandleApiError
    \/ ReportFailure
    \/ SelectBuilding
    \/ DateInput
    \/ FetchCourses
    \/ SearchCourses
    \/ SelectCourse
    \/ FetchVideo
    \/ AskDownload
    \/ ChooseMethod
    \/ ConfirmFfmpeg
    \/ RunFfmpeg
    \/ Download
    \/ Transfer
    \/ Restart

\* storage writes always succeed
Spec == Init /\ [][Next]_vars

\* any write to the credential file may fail
SpecWriteFault == InitWriteFault /\ [][Next]_vars


\* ------------------------------------------------------------------------
\* Properties
\* ------------------------------------------------------------------------

Range(seq) == {seq[i] : i \in 1..Len(seq)}

\* s ends with p
EndsWith(s, p) ==
    /\ Len(s) >= Len(p)
    /\ SubSeq(s, Len(s) - Len(p) + 1, Len(s)) = p

\* the validity invariant of a credential: authorization starts with
\* "Bearer " and cookie is a non-empty string
ValidCredential(a) ==
    /\ a.type = "object"
    /\ GetProp(a, K_authorization).type = "string"
    /\ StartsWith(GetProp(a, K_authorization).str, S_Bearer)
    /\ GetProp(a, K_cookie).type = "string"
    /\ Len(GetProp(a, K_cookie).str) > 0

\* a failure the specification classifies as an authorization failure:
\* transport status 401 or 403, or a non-zero envelope code whose message
\* contains "Unauthorized" or "Forbidden"
AuthorizationClassified(f) ==
    \/ f.kind = "transport" /\ f.status \in {401, 403}
    \/ /\ f.kind = "application"
       /\ Includes(f.msg, <<"U","n","a","u","t","h","o","r","i","z","e","d">>) \/ Includes(f.msg, <<"F","o","r","b","i","d","d","e","n">>)

\* C1: at every fetch step (locations, schedule, lecture detail), a run whose
\* fetch failed with an authorization-classified failure has called
\* deleteAuthInfo from handleApiError by the time it reports the failure and
\* by the time it has terminated.
C1_AuthFailureInvalidates ==
    (pc \in {"reportFailure", "exited"} /\ AuthorizationClassified(failure))
        => "handleApiError" \in Range(deletedBy)

\* C2: the stages begin in the order credential, locations, schedule, detail,
\* resolve, download, each one only after the one before it completed; and a
\* run whose schedule fetch got transport status 401 ends with the stored
\* credential invalidated, exit status 1, and no lecture-detail request.
C2_StagesInOrder ==
    /\ Len(started) <= Len(StageOrder)
    /\ \A i \in 1..Len(started) : started[i] = StageOrder[i]
    /\ \A i \in 1..Len(completed) : completed[i] = StageOrder[i]
    /\ \A i \in 2..Len(started) : i - 1 <= Len(completed)
    /\ Len(completed) <= Len(started)
    /\ Len(calls) <= 3
    /\ \A i \in 1..Len(calls) : calls[i].api = <<"buildings", "courses", "video">>[i]
    /\ (/\ pc = "exited"
        /\ failure.step = "schedule"
        /\ failure.kind = "transport"
        /\ failure.status = 401)
           => /\ deletedBy # <<>>
              /\ deletedBy[Len(deletedBy)] = "handleApiError"
              /\ file = FileOf(<<>>)
              /\ exitCode = 1
              /\ exitAt = "handleApiError"
              /\ "detail" \notin Range(started)
              /\ \A i \in 1..Len(calls) : calls[i].api # "video"

\* a run ended by a 401 on the schedule fetch, after the invalidation
C2_Witness ==
    /\ pc = "exited"
    /\ failure.step = "schedule"
    /\ failure.status = 401
    /\ started = <<"credential", "locations", "schedule">>
    /\ completed = <<"credential", "locations">>
    /\ lastStore.op = "delete"

\* C3: saveAuthInfo is called exactly when the locations fetch has succeeded
\* (2xx and envelope code 0), with the credential in use, and the request
\* before it is the locations request; a run whose locations fetch failed has
\* no call of saveAuthInfo.
C3_SaveAfterFirstSuccess ==
    /\ saves = (IF "locations" \in Range(completed) THEN 1 ELSE 0)
    /\ failure.step = "locations" => saves = 0
    /\ saves > 0 => calls # <<>> /\ calls[1] = getBuildingsRequest(authInfo)
    /\ (saves > 0 /\ lastStore.op = "save")
           => /\ lastStore.arg = authInfo
              /\ file = FileOf(JSONStringify(authInfo))

\* the credential has just been written, after the locations fetch succeeded
C3_Witness ==
    /\ pc = "selectBuilding"
    /\ saves = 1
    /\ Len(calls) = 1
    /\ lastStore.op = "save"
    /\ file = FileOf(JSONStringify(authInfo))
    /\ lastStore.before = NoFile

\* C4: the credential loadAuthInfo returned, the credential in use, the
\* credential saveAuthInfo was called with and the headers of every request
\* issued satisfy the validity invariant.
C4_CredentialsValid ==
    /\ savedAuth # JSNull => ValidCredential(savedAuth)
    /\ authInfo # JSNull => ValidCredential(authInfo)
    /\ (lastStore.op = "load" /\ lastStore.result # JSNull)
           => ValidCredential(lastStore.result)
    /\ lastStore.op = "save" => ValidCredential(lastStore.arg)
    /\ stored.kind = "saved" => ValidCredential(stored.cred)
    /\ \A i \in 1..Len(calls) :
         /\ calls[i].headers.authorization.type = "string"
         /\ StartsWith(calls[i].headers.authorization.str, S_Bearer)
         /\ calls[i].headers.cookie.type = "string"
         /\ Len(calls[i].headers.cookie.str) > 0

\* a stored credential was loaded, accepted by the user, sent and saved again
C4_Witness ==
    /\ run > 1
    /\ savedAuth # JSNull
    /\ authInfo = savedAuth
    /\ Len(calls) = 3
    /\ lastStore.op = "save"
    /\ lastStore.arg = savedAuth

\* C5: a loadAuthInfo that finds the store as a saveAuthInfo left it (no
\* write in between) returns the credential that was saved, also when that
\* save took the place of an earlier one, and clears nothing.
C5_LoadReturnsLastSaved ==
    (lastStore.op = "load" /\ lastStore.was.kind = "saved")
        => /\ lastStore.result = lastStore.was.cred
           /\ ~lastStore.healed
           /\ ~lastStore.raised
           /\ lastStore.after = lastStore.before

\* a load after the second of two saves of different credentials, the second
\* one with a cookie that needs escaping
C5_Witness ==
    /\ lastStore.op = "load"
    /\ lastStore.was.kind = "saved"
    /\ lastStore.was.replaced
    /\ lastStore.result = MkAuth(<<"B","e","a","r","e","r"," ","t">>, <<"a", DQ, "b">>)


\* C6: loadAuthInfo never raises; it returns null when there is no file, when
\* the content of the file does not parse as JSON, and when the parsed value
\* does not satisfy the validity invariant; when the content does not parse,
\* the file is empty once loadAuthInfo has returned.
C6_LoadAbsentCases ==
    lastStore.op = "load"
        => /\ ~lastStore.raised
           /\ ~lastStore.before.exists => lastStore.result = JSNull
           /\ (lastStore.before.exists /\ ~JSONParse(lastStore.before.text).ok)
                  => /\ lastStore.result = JSNull
                     /\ lastStore.healed
                     /\ lastStore.after = FileOf(<<>>)
           /\ (/\ lastStore.before.exists
               /\ JSONParse(lastStore.before.text).ok
               /\ ~ValidCredential(JSONParse(lastStore.before.text).val))
                  => lastStore.result = JSNull
           /\ lastStore.result # JSNull
                  => /\ lastStore.before = FileOf(JSONStringify(lastStore.result))
                     /\ lastStore.after = lastStore.before

\* loadAuthInfo found a file that is not JSON, cleared it and returned null
C6_Witness ==
    /\ lastStore.op = "load"
    /\ lastStore.before = FileOf(<<"n","o","t"," ","j","s","o","n">>)
    /\ lastStore.after = FileOf(<<>>)
    /\ file = FileOf(<<>>)
    /\ lastStore.result = JSNull
    /\ pc = "selectMethod"

\* deleteAuthInfo was called by the last operation on the store
DeleteCalled == lastStore.op = "delete" \/ (lastStore.op = "load" /\ lastStore.healed)

HappyPath ==
    /\ ValidCredential(authInfo)
    /\ buildingsResponse = OneCampusOneBuilding
    /\ coursesResponse = OneSlotOneLecture
    /\ videoResponse = <<VideoCourse(SubContentWith(Mp4Url))>>

\* the run is at the point where the address is known, or beyond it
VideoResolved ==
    /\ videoUrl = Mp4Url
    /\ videoType = "mp4"
    /\ completed = <<"credential", "locations", "schedule", "detail", "resolve">>
           \/ completed = StageOrder
    /\ failure = NoFailure
    /\ pc \in {"askDownload", "download", "transfer", "exited"}
    /\ pc = "exited" => exitCode = 0

\* C8, as stated: in the scenario the run gets to the point where the
\* address is known, with exactly the address of the response, and
\* deleteAuthInfo has not been called in the run.
C8_HappyPathNeverDeletes ==
    HappyPath => VideoResolved /\ deletedBy = <<>>

\* C8, amended: in the scenario the run gets to the point where the address
\* is known, with exactly the address of the response, and handleApiError has
\* not called deleteAuthInfo; the only call of deleteAuthInfo there can be is
\* the one loadAuthInfo makes at the start of the run when the stored file
\* cannot be read.
C8_HappyPathNeverInvalidates ==
    HappyPath
        => /\ VideoResolved
           /\ "handleApiError" \notin Range(deletedBy)
           /\ deletedBy \in {<<>>, <<"loadAuthInfo">>}
           /\ deletedBy = <<"loadAuthInfo">> => savedAuth = JSNull

\* the scenario, right after the address was resolved
C8_Witness ==
    /\ HappyPath
    /\ pc = "askDownload"
    /\ videoUrl = Mp4Url
    /\ deletedBy = <<>>
    /\ Len(calls) = 3

\* the sub_content values for which C9 says there is no address: absent,
\* empty, not JSON, without save_playback, without contents or with empty
\* contents
AbsentSubContents ==
    { Undefined,
      JSNull,
      JSStr(<<>>),
      JSStr(<<"n","o","t"," ","j","s","o","n">>),
      JSStr(<<"n","u","l","l">>),
      JSStr(<<"{","}">>),
      JSStr(<<"{","\"","l","i","v","e","\"",":","{","\"","c","o","n","t","e","n","t","s","\"",":","\"","u","\"","}","}">>),
      JSStr(<<"{","\"","s","a","v","e","_","p","l","a","y","b","a","c","k","\"",":","n","u","l","l","}">>),
      JSStr(<<"{","\"","s","a","v","e","_","p","l","a","y","b","a","c","k","\"",":","{","}","}">>),
      JSStr(<<"{","\"","s","a","v","e","_","p","l","a","y","b","a","c","k","\"",":","{","\"","c","o","n","t","e","n","t","s","\"",":","\"","\"","}","}">>) }

\* what C9 says extractVideoUrl returns for a list
ExpectedUrl(list) ==
    IF list = <<>> THEN JSNull
    ELSE IF list[1].sub_content \in AbsentSubContents THEN JSNull
    ELSE IF list[1].sub_content = JSStr(<<"{","\"","s","a","v","e","_","p","l","a","y","b","a","c","k","\"",":","{","\"","c","o","n","t","e","n","t","s","\"",":","7","}","}">>)
    THEN JSNum(7)
    ELSE CHOOSE u \in {JSStr(Mp4Url), JSStr(M3u8Url), JSStr(M3u8QueryUrl),
                       JSStr(M3u8DirUrl)} :
             list[1].sub_content = SubContentWith(u.str)

\* C9: whenever extractVideoUrl has been applied to a lecture-detail response
\* it has not raised, and it has returned null in the cases listed and the
\* value of save_playback.contents in the others.
C9_ExtractNeverRaises ==
    extracted # NotExtracted
        => /\ ~extracted.raised
           /\ extracted.url = ExpectedUrl(videoResponse)

\* extractVideoUrl was applied to a sub_content that is not JSON and returned
\* null
C9_Witness ==
    /\ extracted = [raised |-> FALSE, url |-> JSNull]
    /\ videoResponse = <<VideoCourse(JSStr(<<"n","o","t"," ","j","s","o","n">>))>>
    /\ exitAt = "noVideo"

\* C10: videoType is "m3u8" exactly when the address ends with ".m3u8", and
\* the download branch follows videoType: the direct transfer for "mp4", the
\* choice between ffmpeg and the direct transfer for "m3u8".
C10_FormatByExtension ==
    videoType # "none"
        => /\ videoType = "m3u8" <=> EndsWith(videoUrl, S_m3u8)
           /\ pc \in {"chooseMethod", "confirmFfmpeg", "ffmpeg"} => videoType = "m3u8"
           /\ downloadPath = "mp4-direct" => videoType = "mp4"
           /\ downloadPath \in {"m3u8-ffmpeg", "m3u8-direct"} => videoType = "m3u8"

\* C11: parseCurlCommand fails whenever the bearer token or the cookie value
\* cannot be located in the pasted command, and its error names exactly the
\* missing fields: Cookie when only the cookie is missing, Authorization when
\* only the token is missing, both when both are missing; it returns a
\* credential only for a command that carries both, and a failure ends the
\* run without a credential.
C11_MissingFieldsNamed ==
    curlCommand # Undefined
        => /\ curlCommand \in CurlCommands.onlyToken
                => parsed = [ok |-> FALSE, missing |-> <<"Cookie">>]
           /\ curlCommand \in CurlCommands.onlyCookie
                => parsed = [ok |-> FALSE, missing |-> <<"Authorization">>]
           /\ curlCommand \in CurlCommands.neither
                => parsed = [ok |-> FALSE, missing |-> <<"Authorization", "Cookie">>]
           /\ parsed.ok
                => curlCommand \in CurlCommands.both \cup CurlCommands.twoCookies
           /\ ~parsed.ok => /\ parsed.missing # <<>>
                            /\ authInfo = JSNull
                            /\ exitAt = "parseFailed"

\* a command with line continuations that carries the token and no cookie
\* was pasted, and the error named Cookie alone
C11_Witness ==
    /\ curlCommand # Undefined
    /\ curlCommand \in CurlCommands.onlyToken
    /\ Includes(curlCommand, <<NL>>)
    /\ parsed = [ok |-> FALSE, missing |-> <<"Cookie">>]
    /\ pc = "exited"

\* C12: for a well-formed command that carries a quoted bearer token and a
\* quoted cookie value, parseCurlCommand returns the credential
\* {"Bearer " + token, cookie}, whatever the quote (single or double), the
\* flag spelling (short or long) and the line wrapping (one line or line
\* continuations, between the options or between a flag and its value).
C12_ExtractsCredential ==
    (curlCommand # Undefined /\ curlCommand \in CurlCommands.both)
        => /\ parsed = [ok |-> TRUE, auth |-> CredA]
           /\ authInfo = CredA
           /\ pc = "getBuildings"

\* a double-quoted command in the long spelling, wrapped with line
\* continuations, gave the credential
C12_Witness ==
    /\ curlCommand # Undefined
    /\ curlCommand \in CurlCommands.both
    /\ Includes(curlCommand, <<NL>>)
    /\ Includes(curlCommand, <<"-","-","c","o","o","k","i","e"," ",DQ>>)
    /\ Includes(curlCommand, <<"-","-","h","e","a","d","e","r"," ",DQ>>)
    /\ parsed.ok
    /\ authInfo = CredA

\* the lectures of courses, in order, of which the title, the lecturer name
\* or the room name contains term, letter case ignored
LecturesContaining(courses, term) ==
    LET has(field) == Includes(ToLowerCase(field), ToLowerCase(term))
        matches(c) == has(c.title) \/ has(c.lecturer_name) \/ has(c.room_name)
    IN  SelectSeq(courses, matches)

\* C13 as stated: filterCourses returns exactly the lectures whose title,
\* lecturer name or room name contains the search term as typed, letter case
\* ignored, in the order of the flattened sequence, and the whole sequence
\* for an empty term.
C13_FilterBySearchTerm ==
    searchTerm # Undefined
        => filteredCourses = IF searchTerm = <<>> THEN allCourses
                             ELSE LecturesContaining(allCourses, searchTerm)

\* C13 amended: filterCourses returns exactly the lectures whose title,
\* lecturer name or room name contains the search term with its leading and
\* trailing white space removed, letter case ignored, in the order of the
\* flattened sequence, and the whole sequence for an empty term.
C13_FilterByTrimmedTerm ==
    searchTerm # Undefined
        => filteredCourses = IF searchTerm = <<>> THEN allCourses
                             ELSE LecturesContaining(allCourses, Trim(searchTerm))

\* the three lectures Algebra, Biology, Advanced Algebra filtered by
\* "ALGEBRA" gave the two Algebra lectures in their order
C13_Witness ==
    /\ allCourses = <<Algebra, Biology, AdvancedAlgebra>>
    /\ searchTerm # Undefined
    /\ searchTerm = <<"A","L","G","E","B","R","A">>
    /\ filteredCourses = <<Algebra, AdvancedAlgebra>>
    /\ pc = "selectCourse"

\* C14: every schedule request carries the date as YYYY-MM-DD, and carries
\* the building filter, with the buildingId main passed, whenever main passed
\* a buildingId, whatever integer it is; only without a buildingId (all
\* buildings) does the request carry no building filter.
C14_BuildingFilterAppended ==
    \A i \in 1..Len(calls) :
        calls[i].api = "courses"
            => /\ DatePromptAccepts(calls[i].search_time)
               /\ calls[i].building_in = Undefined <=> buildingId = Undefined
               /\ buildingId # Undefined
                    => calls[i].building_in = JSStr(Digits(buildingId.num))

\* C15: while the run has no credential (nothing stored, a stored one that
\* fails validation, a pasted command whose extraction or validation fails)
\* it asks for fresh input again and does not end, the user's cancel apart;
\* the first API call is issued only with a credential that passed
\* validation.
C15_InvalidCredentialReprompts ==
    /\ (pc = "exited" /\ calls = <<>>) => exitAt = "cancel"
    /\ (curlCommand # Undefined /\ ~parsed.ok)
            => pc \in {"selectMethod", "pasteCurl", "manualInput"}
    /\ calls # <<>> => ValidCredential(authInfo)

\* C16: when downloadFile has returned or thrown, on whichever path (success,
\* read error, write error), its writer has been ended and the reader of the
\* response body has been released or cancelled, a body read to its end or
\* left errored by the read counting as released; when it throws, the error
\* is the one of the step that failed.
C16_NoOpenResource ==
    transfer.result \in {"returned", "threw"}
        => /\ transfer.writer \in {"none", "ended"}
           /\ \/ transfer.reader \in {"none", "released", "cancelled"}
              \/ transfer.body \in {"closed", "errored"}
           /\ transfer.result = "threw" => transfer.error # "none"

\* C17: when the lecture-detail fetch succeeded and extractVideoUrl returned
\* no address, the run has ended, the error handler has not invalidated the
\* stored credential, no download has been started, no fetch failure is
\* recorded, and the run has not ended the way transport and application
\* failures end, with exit status 1.
C17_NoRecordingIsNotFailure ==
    (extracted # NotExtracted /\ ~extracted.raised /\ ~Truthy(extracted.url))
        => /\ pc = "exited"
           /\ "handleApiError" \notin Range(deletedBy)
           /\ "download" \notin Range(started)
           /\ transfer = NoTransfer
           /\ failure = NoFailure
           /\ exitCode # 1

\* a response the transport layer answers outside 200..299
NonSuccessStatus(resp) ==
    resp.kind = "http" /\ ~(resp.status >= 200 /\ resp.status <= 299)

\* a 2xx response whose JSON envelope has a non-zero code
NonZeroEnvelope(resp) ==
    /\ resp.kind = "http"
    /\ resp.status >= 200 /\ resp.status <= 299
    /\ resp.body.json
    /\ resp.body.code # 0

\* C18: for each of the three fetches, a non-2xx response fails with an
\* error whose message carries the transport status, and a 2xx response with
\* a non-zero envelope code is an application failure reported with the
\* envelope's msg; either way the run is on its way to, or at, an exit with
\* status 1, the failed step is the last one started, it is never completed,
\* and nothing of the later stages (selection, flattening, filtering,
\* extraction, download) has run.
C18_FetchFailuresSurfaced ==
    failure # NoFailure
        => /\ NonSuccessStatus(failure.response)
                => /\ failure.kind = "transport"
                   /\ Includes(failure.msg, Digits(failure.response.status))
           /\ NonZeroEnvelope(failure.response)
                => /\ failure.kind = "application"
                   /\ failure.msg = failure.response.body.msg
           /\ pc \in {"handleApiError", "reportFailure", "exited"}
           /\ pc = "exited" => exitCode = 1
           /\ started # <<>> /\ started[Len(started)] = failure.step
           /\ failure.step \notin Range(completed)
           /\ failure.step = "locations"
                => buildingsResponse = <<>> /\ buildingId = Undefined
           /\ failure.step \in {"locations", "schedule"}
                => /\ coursesResponse = <<>> /\ allCourses = <<>>
                   /\ searchTerm = Undefined /\ filteredCourses = <<>>
           /\ videoResponse = <<>> /\ extracted = NotExtracted
           /\ videoUrl = <<>> /\ transfer = NoTransfer

\* a run ended by a 500 answer to the lecture-detail request
C18_Witness ==
    /\ pc = "exited"
    /\ exitCode = 1
    /\ failure.step = "detail"
    /\ NonSuccessStatus(failure.response)
    /\ failure.response.status = 500

\* a run ended by a non-zero envelope code of the schedule request
C18_WitnessApplication ==
    /\ pc = "exited"
    /\ failure.step = "schedule"
    /\ NonZeroEnvelope(failure.response)

\* the three endpoints in the order main requests them, with the step each
\* request belongs to
EndpointOrder == << "buildings", "courses", "video" >>
EndpointStep == << "locations", "schedule", "detail" >>

\* C19: in any run the requests issued are a prefix of (locations, schedule,
\* lecture detail), each endpoint at most once; a request is issued only
\* after the step of the previous request has completed; every request
\* issued has settled (its step completed or failed); and after a fetch
\* failure the failed request is the last one and the run is on its way to,
\* or at, its exit.
C19_NoRetryNoOverlap ==
    /\ Len(calls) <= 3
    /\ \A i \in 1..Len(calls) : calls[i].api = EndpointOrder[i]
    /\ \A i \in 2..Len(calls) : EndpointStep[i - 1] \in Range(completed)
    /\ \A i \in 1..Len(calls) :
         \/ EndpointStep[i] \in Range(completed)
         \/ failure.step = EndpointStep[i]
    /\ failure # NoFailure
         => /\ calls # <<>>
            /\ EndpointStep[Len(calls)] = failure.step
            /\ pc \in {"handleApiError", "reportFailure", "exited"}

\* a run that requested all three endpoints and reached the download prompt
C19_Witness ==
    /\ Len(calls) = 3
    /\ pc = "askDownload"
    /\ failure = NoFailure

\* the schedule was fetched and its flattened list is empty, or the search
\* filter has been applied and nothing is left
NothingToSelect ==
    /\ "schedule" \in Range(completed)
    /\ \/ allCourses = <<>>
       \/ searchTerm # Undefined /\ filteredCourses = <<>>

\* C20: when the flattened schedule is empty, or is empty after the search
\* filter, the run has ended with the "no courses found" message and exit
\* status 0: the schedule was requested exactly once, no lecture-detail
\* request was issued, no later step started, no fetch failure is recorded
\* and the error handler has not deleted the stored credential.
C20_NoMatchIsTerminal ==
    NothingToSelect
        => /\ pc = "exited"
           /\ exitAt \in {"noCourses", "noMatch"}
           /\ exitCode = 0
           /\ Len(calls) = 2
           /\ calls[2].api = "courses"
           /\ \A i \in 1..Len(calls) : calls[i].api # "video"
           /\ started[Len(started)] = "schedule"
           /\ failure = NoFailure
           /\ "handleApiError" \notin Range(deletedBy)

\* a run whose schedule had lectures and whose search term matched none
C20_Witness ==
    /\ NothingToSelect
    /\ allCourses # <<>>
    /\ exitAt = "noMatch"

\* a run whose schedule had no lecture at all
C20_WitnessEmptySchedule ==
    /\ NothingToSelect
    /\ allCourses = <<>>
    /\ exitAt = "noCourses"

\* the sum of the first n entries of a sequence of lengths
RECURSIVE SumTo(_, _)
SumTo(lengths, n) == IF n = 0 THEN 0 ELSE SumTo(lengths, n - 1) + lengths[n]

\* the reports onProgress received are one per chunk written, each carrying
\* the cumulative byte count, and the announced total when there is one
CumulativeReports(t) ==
    /\ Len(t.progress) = Len(t.chunks)
    /\ \A i \in 1..Len(t.progress) :
         /\ t.progress[i][1] = SumTo(t.chunks, i)
         /\ (t.totalSize.type = "number" /\ t.totalSize.num > 0)
                => t.progress[i][2] = t.totalSize.num
    /\ \A i \in 2..Len(t.progress) : t.progress[i - 1][1] <= t.progress[i][1]

\* C21: during downloadFile, after each chunk written the progress callback
\* has been invoked with the cumulative number of bytes so far, and with the
\* total when the response announced one; the reported counts never
\* decrease, and when downloadFile returns after reading chunks the last
\* report equals the sum of the lengths of all chunks read.
C21_ProgressAfterEachChunk ==
    transfer.result \in {"pending", "returned", "threw"}
        => /\ CumulativeReports(transfer)
           /\ (transfer.result = "returned" /\ transfer.chunks # <<>>)
                => /\ transfer.progress # <<>>
                   /\ transfer.progress[Len(transfer.progress)][1]
                        = SumTo(transfer.chunks, Len(transfer.chunks))

\* C22: a command that carries the cookie of CredA through a cookie option
\* (-b or --cookie) and another cookie through a header option (-H or
\* --header naming cookie) parses to the credential with the cookie of the
\* cookie option, whichever of the two comes first in the text and wherever
\* the authorization header stands among them.
C22_DedicatedCookieWins ==
    (curlCommand # Undefined /\ curlCommand \in CurlCommands.twoCookies)
        => /\ parsed.ok
           /\ parsed.auth = CredA
           /\ GetProp(parsed.auth, K_cookie) = JSStr(<<"c">>)

\* a pasted command whose header cookie precedes its cookie option, itself
\* before the authorization header
C22_Witness ==
    /\ curlCommand # Undefined
    /\ curlCommand \in CurlCommands.twoCookies
    /\ IndexOfFrom(curlCommand, "d", 1) < IndexOfFrom(curlCommand, "b", 1)
    /\ IndexOfFrom(curlCommand, "b", 1) < IndexOfFrom(curlCommand, "z", 1)
    /\ parsed.ok

\* the step just taken is one of the three at which the specification lets
\* the persisted credential change: loadAuthInfo's clearing of a file it
\* could not read, the save after the locations were fetched, or the
\* invalidation by handleApiError after an authorization-classified failure
StoreChangePoint ==
    \/ /\ lastStore'.op = "load"
       /\ lastStore'.healed
       /\ pc = "start"
    \/ /\ lastStore'.op = "save"
       /\ lastStore'.by = "main"
       /\ pc = "getBuildings"
       /\ "locations" \in Range(completed')
    \/ /\ lastStore'.op = "delete"
       /\ lastStore'.by = "handleApiError"
       /\ pc = "handleApiError"
       /\ AuthorizationClassified(failure)

\* C23: every step that changes the persisted credential is the self-heal
\* clearing inside loadAuthInfo, the save after the successful locations
\* fetch, or the invalidation on an authorization-classified failure; every
\* other step (other failures, cancellations, the no-match and no-recording
\* endings, resolution, download, a new start) leaves the file as it is.
C23_StoreChangesAtThreePoints ==
    [][file' # file => StoreChangePoint]_vars

\* the stored text is a JSON object whose authorization and cookie are
\* strings
StringFieldsObject(p) ==
    /\ p.ok
    /\ p.val.type = "object"
    /\ GetProp(p.val, K_authorization).type = "string"
    /\ GetProp(p.val, K_cookie).type = "string"

\* what a call of loadAuthInfo on the file `before` may do, given that it
\* left the file `after` and returned `result`
LoadFrame(before, after, result) ==
    /\ after # before
         => /\ before.exists
            /\ \/ ~JSONParse(before.text).ok
               \/ ~StringFieldsObject(JSONParse(before.text))
    /\ (before.exists /\ StringFieldsObject(JSONParse(before.text))
          /\ ~ValidCredential(JSONParse(before.text).val))
         => result = JSNull /\ after = before
    /\ Truthy(result) => after = before /\ ValidCredential(result)

\* C24: loadAuthInfo changes the file only when the stored text cannot be
\* deserialized or its validation raises (the content is not an object with
\* string fields authorization and cookie); on a JSON object with string
\* fields that fails the validity check (no "Bearer " prefix, or an empty
\* cookie) it returns absent and leaves the file as it was; and when it
\* returns a credential the file is as it was.
C24_LoadLeavesStoreUnlessRaised ==
    lastStore.op = "load"
        => LoadFrame(lastStore.before, lastStore.after, lastStore.result)

\* loadAuthInfo has just returned absent on a stored credential whose
\* authorization lacks the prefix, and the file still holds it
C24_Witness ==
    /\ lastStore.op = "load"
    /\ lastStore.before.exists
    /\ StringFieldsObject(JSONParse(lastStore.before.text))
    /\ ~ValidCredential(JSONParse(lastStore.before.text).val)
    /\ lastStore.result = JSNull
    /\ file = lastStore.before

====
